---- MODULE Spec2Model ----
(***************************************************************************)
(* A model of gemma: bearings (Item, Attr, Call, Fallback), courses,       *)
(* the Compass / Surveyor chart and Cartographer.map.                      *)
(*                                                                         *)
(* Python objects live in a heap (a sequence of objects addressed by       *)
(* their position), so that placing a container of the origin on the       *)
(* destination shares it, as a Python reference does.                      *)
(***************************************************************************)
EXTENDS Integers, Sequences, FiniteSets, TLC

----------------------------------------------------------------------------
(* Values.  A value is None, an int, a str (its characters), a tuple of    *)
(* values or a reference to a heap object.  A heap object is a dict        *)
(* (key -> value, in insertion order) or a dataclass instance              *)
(* (attribute -> value, in __dict__ order).  Keys and attribute names are  *)
(* strings that are not names of members of the built-in types; an int     *)
(* key or position is written in decimal.  A heap object may also be a     *)
(* list, or an instance of the tests' ThrowsKeyError or ThrowsIndexError.  *)
(* A method of an instance is an attribute whose value is callable.        *)

NoneV == [k |-> "none"]

NO_DEFAULT == [k |-> "NO_DEFAULT"]

IntV(n) == [k |-> "int", n |-> n]

StrV(chars) == [k |-> "str", chars |-> chars]

Ref(id) == [k |-> "ref", id |-> id]

Tup(items) == [k |-> "tuple", items |-> items]

KV(key, val) == [key |-> key, val |-> val]

DictObj(items) == [k |-> "dict", items |-> items]

DataObj(items) == [k |-> "obj", items |-> items]

ListObj(items) == [k |-> "list", items |-> items]

\* an object whose __getitem__ and __setitem__ raise error
ThrowsObj(error) == [k |-> "throws", error |-> error]

\* a method: "set" stores its one argument in field, as
\* TestData.caller_set_tester does; "get" takes no argument and returns
\* field's str with " called" added, as DataCallable.get_a does
Method(does, field) == [k |-> "method", does |-> does, field |-> field]

\* the result of a call: a value, or the exception it raised
Ok(v) == [ok |-> TRUE, val |-> v]

Err(e) == [ok |-> FALSE, err |-> e]

\* the result of a call that mutates objects: the heap after it, or the exception
Done(h) == [ok |-> TRUE, heap |-> h]

Fail(e, h) == [ok |-> FALSE, err |-> e, heap |-> h]

IsObject(heap, target, kind) ==
    /\ target.k = "ref"
    /\ heap[target.id].k = kind

\* position of key among the entries of an object, 0 when it is missing
KeyIndex(items, key) ==
    IF \E n \in 1..Len(items) : items[n].key = key
    THEN CHOOSE n \in 1..Len(items) : items[n].key = key
    ELSE 0

\* the entry at position n set to value, appended when n is 0
SetEntryAt(obj, key, value, n) ==
    IF n = 0
    THEN [obj EXCEPT !.items = Append(@, KV(key, value))]
    ELSE [obj EXCEPT !.items[n].val = value]

\* obj[key] = value / setattr(obj, key, value): an existing entry keeps its
\* position, a new one is appended
SetEntry(obj, key, value) == SetEntryAt(obj, key, value, KeyIndex(obj.items, key))

\* the least number of a set of numbers
Least(S) == CHOOSE n \in S : \A m \in S : n <= m

\* of a list of results, the position of the first that is not ok, or one
\* past the list when all are
FirstBad(results) ==
    IF \A n \in 1..Len(results) : results[n].ok THEN Len(results) + 1
    ELSE Least({n \in 1..Len(results) : ~results[n].ok})

Min(a, b) == IF a <= b THEN a ELSE b

\* the int keys and positions of the model go from -MaxPos to MaxPos
MaxPos == 3

\* isinstance(name, int), for a name as it is written
IsInt(name) == \E p \in -MaxPos..MaxPos : ToString(p) = name

\* the int that is written name
IntOf(name) == CHOOSE p \in -MaxPos..MaxPos : ToString(p) = name

\* where the index name points in a sequence of length n (from 1), 0 when
\* the sequence raises IndexError: Python counts a negative index from the end
SeqIndex(name, n) ==
    IF 0 <= IntOf(name) /\ IntOf(name) < n THEN IntOf(name) + 1
    ELSE IF -n <= IntOf(name) /\ IntOf(name) < 0 THEN n + IntOf(name) + 1
    ELSE 0

----------------------------------------------------------------------------
(* Bearings *)

Bearing(type, name, factory) == [type |-> type, name |-> name, factory |-> factory]

Item(name) == Bearing("Item", name, "none")

Attr(name) == Bearing("Attr", name, "none")

Call(name) == Bearing("Call", name, "none")

Fallback(name) == Bearing("Fallback", name, "none")

\* Fallback.BEARING_CLASSES
BEARING_CLASSES == <<"Item", "Call", "Attr">>

\* a bearing class of the tests that is not among BEARING_CLASSES
Alpha(name) == Bearing("Alpha", name, "none")

\* an __eq__ that knows a Fallback on its right only
BearingEqOneWay(self, other) ==
    IF other.name # self.name THEN FALSE
    ELSE IF other.type = "Fallback"
            /\ \E n \in 1..Len(BEARING_CLASSES) : BEARING_CLASSES[n] = self.type
         THEN TRUE
    ELSE self.type = other.type

\* BearingAbstract.__eq__
BearingEq(self, other) ==
    IF other.name # self.name THEN FALSE
    ELSE IF other.type = "Fallback"
            /\ \E n \in 1..Len(BEARING_CLASSES) : BEARING_CLASSES[n] = self.type
         THEN TRUE
    ELSE IF self.type = "Fallback"
            /\ \E n \in 1..Len(BEARING_CLASSES) : BEARING_CLASSES[n] = other.type
         THEN TRUE
    ELSE self.type = other.type

\* callable(value)
IsCallable(heap, value) == value.k = "method"

\* the value of the entry at position n, AttributeError when n is 0
EntryOrAttributeError(items, n) ==
    IF n = 0 THEN Err("AttributeError") ELSE Ok(items[n].val)

\* getattr(target, name): the attributes of a dataclass instance are its
\* fields; a dict, a str, an int and None have only built-in members
GetAttr(heap, target, name) ==
    IF IsObject(heap, target, "obj")
    THEN EntryOrAttributeError(heap[target.id].items,
                               KeyIndex(heap[target.id].items, name))
    ELSE Err("AttributeError")

\* Attr.fetch after getattr
AttrFetchGot(got) == IF got.ok THEN got ELSE Err("NullNameError")

\* Attr.fetch
AttrFetch(heap, target, name) == AttrFetchGot(GetAttr(heap, target, name))

\* an Attr.place without its setattr
AttrPlaceUnset(heap, target, name, value, got) ==
    IF ~got.ok THEN Fail("NullNameError", heap)
    ELSE IF IsCallable(heap, got.val) THEN Fail("TypeError", heap)
    ELSE Done(heap)

\* Attr.place after getattr
AttrPlaceGot(heap, target, name, value, got) ==
    IF ~got.ok THEN Fail("NullNameError", heap)
    ELSE IF IsCallable(heap, got.val) THEN Fail("TypeError", heap)
    ELSE Done([heap EXCEPT ![target.id] = SetEntry(@, name, value)])

\* Attr.place
AttrPlace(heap, target, name, value) ==
    AttrPlaceGot(heap, target, name, value, GetAttr(heap, target, name))

\* the value of the entry at position n, NullNameError when n is 0
EntryOrNullName(items, n) ==
    IF n = 0 THEN Err("NullNameError") ELSE Ok(items[n].val)

\* items[name] of a list, a tuple or the characters of a str: TypeError for
\* a name that is no int, IndexError turned into NullNameError
SeqFetch(items, name, str) ==
    IF ~IsInt(name) THEN Err("TypeError")
    ELSE IF SeqIndex(name, Len(items)) = 0 THEN Err("NullNameError")
    ELSE IF str THEN Ok(StrV(<<items[SeqIndex(name, Len(items))]>>))
    ELSE Ok(items[SeqIndex(name, Len(items))])

\* Item.fetch: target[name], KeyError and IndexError turned into NullNameError
ItemFetch(heap, target, name) ==
    IF IsObject(heap, target, "dict")
    THEN EntryOrNullName(heap[target.id].items, KeyIndex(heap[target.id].items, name))
    ELSE IF IsObject(heap, target, "list")
    THEN SeqFetch(heap[target.id].items, name, FALSE)
    ELSE IF IsObject(heap, target, "throws") THEN Err("NullNameError")
    ELSE IF target.k = "tuple" THEN SeqFetch(target.items, name, FALSE)
    ELSE IF target.k = "str" THEN SeqFetch(target.chars, name, TRUE)
    ELSE Err("TypeError")

\* the except IndexError clause of Item.place for a list and an int name:
\* name + 1 - len(target) times None is appended, then target[name] = value
\* is tried again
ListFill(heap, target, name, value, filled) ==
    IF SeqIndex(name, Len(filled)) = 0 THEN Fail("IndexError", heap)
    ELSE Done([heap EXCEPT ![target.id].items =
                   [filled EXCEPT ![SeqIndex(name, Len(filled))] = value]])

\* an Item.place on a list without the except IndexError clause for lists
ListPlaceStrict(heap, target, name, value) ==
    IF ~IsInt(name) THEN Fail("TypeError", heap)
    ELSE IF SeqIndex(name, Len(heap[target.id].items)) # 0
    THEN Done([heap EXCEPT ![target.id].items =
                   [@ EXCEPT ![SeqIndex(name, Len(heap[target.id].items))] = value]])
    ELSE Fail("NullNameError", heap)

\* Item.place on a list
ListPlace(heap, target, name, value) ==
    IF ~IsInt(name) THEN Fail("TypeError", heap)
    ELSE IF SeqIndex(name, Len(heap[target.id].items)) # 0
    THEN Done([heap EXCEPT ![target.id].items =
                   [@ EXCEPT ![SeqIndex(name, Len(heap[target.id].items))] = value]])
    ELSE ListFill(heap, target, name, value,
                  heap[target.id].items \o
                      [n \in 1..(IntOf(name) + 1 - Len(heap[target.id].items)) |-> NoneV])

\* Item.place: target[name] = value
ItemPlace(heap, target, name, value) ==
    IF IsObject(heap, target, "dict")
    THEN Done([heap EXCEPT ![target.id] = SetEntry(@, name, value)])
    ELSE IF IsObject(heap, target, "list") THEN ListPlace(heap, target, name, value)
    ELSE IF IsObject(heap, target, "throws") THEN Fail("NullNameError", heap)
    ELSE Fail("TypeError", heap)

\* self.field + " called" of a "get" method
Called(value) ==
    IF value.k = "str" THEN Ok(StrV(value.chars \o <<" ", "c", "a", "l", "l", "e", "d">>))
    ELSE Err("TypeError")

\* Call.fetch after getattr: method(), TypeError from the call of what is
\* not callable and of a method that needs an argument
CallFetchGot(heap, target, got) ==
    IF ~got.ok THEN Err("NullNameError")
    ELSE IF got.val.k = "method" /\ got.val.does = "get"
    THEN Called(heap[target.id].items[KeyIndex(heap[target.id].items, got.val.field)].val)
    ELSE Err("TypeError")

\* Call.fetch: getattr, then the call without arguments
CallFetch(heap, target, name) == CallFetchGot(heap, target, GetAttr(heap, target, name))

\* Call.place after getattr: method(value), TypeError from the call of what
\* is not callable and of a method that takes no argument
CallPlaceGot(heap, target, value, got) ==
    IF ~got.ok THEN Fail("NullNameError", heap)
    ELSE IF got.val.k = "method" /\ got.val.does = "set"
    THEN Done([heap EXCEPT ![target.id] = SetEntry(@, got.val.field, value)])
    ELSE Fail("TypeError", heap)

\* Call.place: getattr, then the call with the value
CallPlace(heap, target, name, value) ==
    CallPlaceGot(heap, target, value, GetAttr(heap, target, name))

\* fetch of the bearing class type
ConcreteFetch(heap, type, target, name) ==
    CASE type = "Item" -> ItemFetch(heap, target, name)
      [] type = "Call" -> CallFetch(heap, target, name)
      [] type = "Attr" -> AttrFetch(heap, target, name)

\* place of the bearing class type
ConcretePlace(heap, type, target, name, value) ==
    CASE type = "Item" -> ItemPlace(heap, target, name, value)
      [] type = "Call" -> CallPlace(heap, target, name, value)
      [] type = "Attr" -> AttrPlace(heap, target, name, value)

\* BearingAbstract.is_compatible: NAME_TYPES is [Any] for Item and Fallback
\* and [str] for Attr and Call
IsCompatible(type, name) == type \in {"Item", "Fallback"} \/ ~IsInt(name)

\* the classes of BEARING_CLASSES that Fallback.fetch and Fallback.place come
\* to: those before the first whose result is an exception that the except
\* clause does not catch, and that one
Attempted(results) ==
    {n \in 1..Len(results) :
        \A m \in 1..(n - 1) :
            ~results[m].ok /\ results[m].err \in {"NullNameError", "TypeError", "ValueError"}}

\* the loop of Fallback.fetch and Fallback.place over the results of the
\* classes: the first that is a success or an exception not caught, failure
\* when every exception is caught
FirstLeaving(results, failure) ==
    IF \E n \in Attempted(results) :
          results[n].ok \/ results[n].err \notin {"NullNameError", "TypeError", "ValueError"}
    THEN results[Least({n \in Attempted(results) :
                          results[n].ok
                          \/ results[n].err \notin {"NullNameError", "TypeError", "ValueError"}})]
    ELSE failure

\* Fallback.fetch: the first class of BEARING_CLASSES whose fetch succeeds;
\* a class that does not take the name raises TypeError when it is cast
FallbackFetch(heap, target, name) ==
    FirstLeaving([n \in 1..Len(BEARING_CLASSES) |->
                    IF IsCompatible(BEARING_CLASSES[n], name)
                    THEN ConcreteFetch(heap, BEARING_CLASSES[n], target, name)
                    ELSE Err("TypeError")],
                 Err("NullNameError"))

\* Fallback.place: the first class of BEARING_CLASSES whose place succeeds
FallbackPlace(heap, target, name, value) ==
    FirstLeaving([n \in 1..Len(BEARING_CLASSES) |->
                    IF IsCompatible(BEARING_CLASSES[n], name)
                    THEN ConcretePlace(heap, BEARING_CLASSES[n], target, name, value)
                    ELSE Fail("TypeError", heap)],
                 Fail("NullNameError", heap))

\* bearing.fetch(target)
BearingFetch(heap, b, target) ==
    IF b.type = "Fallback" THEN FallbackFetch(heap, target, b.name)
    ELSE ConcreteFetch(heap, b.type, target, b.name)

\* bearing.place(target, value)
BearingPlace(heap, b, target, value) ==
    IF b.type = "Fallback" THEN FallbackPlace(heap, target, b.name, value)
    ELSE ConcretePlace(heap, b.type, target, b.name, value)

----------------------------------------------------------------------------
(* Courses *)

Course(bearings) == [k |-> "course", b |-> bearings]

PORT == Course(<<>>)

\* Course.__eq__: the tuples of bearings compare element by element
CourseEq(self, other) ==
    /\ Len(self.b) = Len(other.b)
    /\ \A n \in 1..Len(self.b) : BearingEq(other.b[n], self.b[n])

\* Course.__contains__: some window self[x : x + len(item)] equals item
CourseContains(self, item) ==
    \E x \in 0..(Len(self.b) - Len(item.b)) :
        CourseEq(Course(SubSeq(self.b, x + 1, x + Len(item.b))), item)

BoolV(b) == [k |-> "bool", b |-> b]

\* slice(start, stop): each of the two is an int or None
Slice(start, stop) == [k |-> "slice", start |-> start, stop |-> stop]

IsBearing(other) == "type" \in DOMAIN other

\* the position a bound of a slice stands for in a sequence of n elements:
\* counted from the end when negative, cut to 0..n, none when it is None
SliceBound(bound, n, none) ==
    IF bound = NoneV THEN none
    ELSE IF bound.n < 0 THEN (IF bound.n + n < 0 THEN 0 ELSE bound.n + n)
    ELSE Min(bound.n, n)

\* Course.__getitem__ with a slice: self._bearings[start:stop]
GetSlice(self, start, stop) ==
    Course(SubSeq(self.b, SliceBound(start, Len(self.b), 0) + 1,
                  SliceBound(stop, Len(self.b), Len(self.b))))

\* Course.starts_with
CourseStartsWith(self, other) ==
    IF IsBearing(other)
    THEN IF Len(self.b) = 0 THEN Err("IndexError")
         ELSE Ok(BoolV(BearingEq(self.b[1], other)))
    ELSE Ok(BoolV(CourseEq(GetSlice(self, NoneV, IntV(Len(other.b))), other)))

\* Course.ends_with
CourseEndsWith(self, other) ==
    IF IsBearing(other)
    THEN IF Len(self.b) = 0 THEN Err("IndexError")
         ELSE Ok(BoolV(BearingEq(self.b[Len(self.b)], other)))
    ELSE Ok(BoolV(CourseEq(GetSlice(self, IntV(0 - Len(other.b)), NoneV), other)))

\* del bearing_list[index] in Course.replace
DelItem(items, index) ==
    IF index.k = "int"
    THEN IF index.n >= Len(items) \/ index.n < 0 - Len(items) THEN Err("IndexError")
         ELSE Ok(SubSeq(items, 1, index.n % Len(items))
                 \o SubSeq(items, (index.n % Len(items)) + 2, Len(items)))
    ELSE IF SliceBound(index.start, Len(items), 0) < SliceBound(index.stop, Len(items), Len(items))
    THEN Ok(SubSeq(items, 1, SliceBound(index.start, Len(items), 0))
            \o SubSeq(items, SliceBound(index.stop, Len(items), Len(items)) + 1, Len(items)))
    ELSE Ok(items)

\* start in Course.replace: the index, or the start of the slice, modulo the
\* length of the course
ReplaceStart(self, start) ==
    IF start = NoneV THEN Ok(0)
    ELSE IF Len(self.b) = 0 THEN Err("ZeroDivisionError")
    ELSE Ok(start.n % Len(self.b))

\* bearing_list.insert(start, replacement) and Course(*bearing_list), which
\* takes the bearings of a course in the list in its place
Inserted(items, start, replacement) ==
    SubSeq(items, 1, Min(start, Len(items)))
    \o (IF IsBearing(replacement) THEN <<replacement>> ELSE replacement.b)
    \o SubSeq(items, Min(start, Len(items)) + 1, Len(items))

ReplaceInserted(deleted, start, replacement) ==
    IF ~deleted.ok THEN deleted
    ELSE IF ~start.ok THEN start
    ELSE Ok(Course(Inserted(deleted.val, start.val, replacement)))

\* Course.replace
CourseReplace(self, index, replacement) ==
    ReplaceInserted(DelItem(self.b, index),
                    ReplaceStart(self, IF index.k = "int" THEN index ELSE index.start),
                    replacement)

RECURSIVE FetchWalk(_, _, _, _)
RECURSIVE FetchStep(_, _, _, _)
\* the loop of Course.fetch from the n-th bearing on
FetchWalk(heap, course, n, target) ==
    IF n > Len(course.b) THEN Ok(target)
    ELSE FetchStep(heap, course, n, BearingFetch(heap, course.b[n], target))

\* the loop of Course.fetch after the fetch of the n-th bearing
FetchStep(heap, course, n, got) ==
    IF got.ok THEN FetchWalk(heap, course, n + 1, got.val) ELSE got

\* a Course.fetch that has no default
FetchNoDefault(got, default) == got

\* an except clause of Course.fetch that catches every exception
FetchAnyError(got, default) ==
    IF ~got.ok /\ default # NO_DEFAULT THEN Ok(default) ELSE got

\* the except clause of Course.fetch
FetchDefault(got, default) ==
    IF ~got.ok /\ got.err = "NullNameError" /\ default # NO_DEFAULT
    THEN Ok(default)
    ELSE got

\* Course.fetch
CourseFetch(heap, course, target, default) ==
    FetchDefault(FetchWalk(heap, course, 1, target), default)

\* a test for a value that is there, of whatever type
IsNotNone(heap, value, factory) == value # NoneV

\* isinstance(value, factory) for the factory types dict and list
IsInstance(heap, value, factory) == IsObject(heap, value, factory)

\* BearingAbstract.init_factory: a new empty instance of the factory type,
\* dict or list
InitFactory(factory) == IF factory = "list" THEN ListObj(<<>>) ELSE DictObj(<<>>)

\* where the loop of Course.place has come to: the target, and the heap
\* with the factory nodes placed on the way
Walked(heap, target) == [ok |-> TRUE, heap |-> heap, target |-> target]

RECURSIVE PlaceWalk(_, _, _, _)
RECURSIVE PlaceStep(_, _, _, _, _)
RECURSIVE PlaceFactory(_, _, _, _, _)
\* the loop of Course.place over self.parent from the n-th bearing on
PlaceWalk(heap, course, n, target) ==
    IF n > Len(course.b) - 1 THEN Walked(heap, target)
    ELSE PlaceStep(heap, course, n, target, BearingFetch(heap, course.b[n], target))

\* the loop of Course.place after the fetch of the n-th bearing
PlaceStep(heap, course, n, target, got) ==
    IF ~got.ok /\ (got.err # "NullNameError" \/ course.b[n].factory = "none")
    THEN Fail(got.err, heap)
    ELSE IF course.b[n].factory # "none"
            /\ ~IsInstance(heap, IF got.ok THEN got.val ELSE NoneV, course.b[n].factory)
    THEN PlaceFactory(heap, course, n, Ref(Len(heap) + 1),
                      BearingPlace(Append(heap, InitFactory(course.b[n].factory)),
                                   course.b[n], target, Ref(Len(heap) + 1)))
    ELSE PlaceWalk(heap, course, n + 1, got.val)

\* the loop of Course.place after the factory node of the n-th bearing is placed
PlaceFactory(heap, course, n, new_node, placed) ==
    IF placed.ok THEN PlaceWalk(placed.heap, course, n + 1, new_node)
    ELSE Fail(placed.err, heap)

\* the last line of Course.place
PlaceEndPoint(course, value, walked) ==
    IF ~walked.ok THEN walked
    ELSE IF Len(course.b) = 0 THEN Fail("IndexError", walked.heap)
    ELSE BearingPlace(walked.heap, course.b[Len(course.b)], walked.target, value)

\* Course.place
CoursePlace(heap, course, target, value) ==
    PlaceEndPoint(course, value, PlaceWalk(heap, course, 1, target))

----------------------------------------------------------------------------
(* Coordinates and their scratch state *)

Coordinate(org, dst, clean_org, clean_dst, clean_value, default) ==
    [org |-> org, dst |-> dst, clean_org |-> clean_org, clean_dst |-> clean_dst,
     clean_value |-> clean_value, default |-> default]

\* Coordinate._validate_default_length does not raise
ValidCoordinate(coord) ==
    \/ coord.default = NO_DEFAULT
    \/ coord.org.k # "tuple"
    \/ /\ coord.default.k = "tuple"
       /\ Len(coord.org.items) = Len(coord.default.items)

\* CleanData.__post_init__
CleanData(coord) ==
    LET org_list == IF coord.org.k = "tuple" THEN coord.org.items ELSE <<coord.org>>
    IN  [org_list |-> org_list,
         default_list |->
            IF coord.default = NO_DEFAULT
            THEN [n \in 1..Len(org_list) |-> NO_DEFAULT]
            ELSE IF coord.default.k = "tuple" THEN coord.default.items
            ELSE <<coord.default>>,
         dst_list |->
            IF coord.dst = NoneV THEN [n \in 1..Len(org_list) |-> NoneV]
            ELSE IF coord.dst.k = "tuple" THEN coord.dst.items
            ELSE <<coord.dst>>,
         value |-> NoneV]

----------------------------------------------------------------------------
(* str and int helpers of the cleaning functions *)

DIGITS == <<"0", "1", "2", "3", "4", "5", "6", "7", "8", "9">>

IsDigit(c) == \E d \in 1..Len(DIGITS) : DIGITS[d] = c

DigitValue(c) == (CHOOSE d \in 1..Len(DIGITS) : DIGITS[d] = c) - 1

RECURSIVE IntToChars(_)
\* str(n) for n >= 0
IntToChars(n) ==
    IF n < Len(DIGITS) THEN <<DIGITS[n + 1]>>
    ELSE Append(IntToChars(n \div Len(DIGITS)), DIGITS[(n % Len(DIGITS)) + 1])

RECURSIVE CharsToInt(_, _, _)
\* the digits chars[n..] appended to the number acc
CharsToInt(chars, n, acc) ==
    IF n > Len(chars) THEN acc
    ELSE CharsToInt(chars, n + 1, acc * Len(DIGITS) + DigitValue(chars[n]))

\* int(text)
ParseInt(chars) ==
    IF Len(chars) > 0 /\ \A n \in 1..Len(chars) : IsDigit(chars[n])
    THEN Ok(IntV(CharsToInt(chars, 1, 0)))
    ELSE Err("ValueError")

RECURSIVE SplitFrom(_, _, _, _)
SplitFrom(chars, sep, n, part) ==
    IF n > Len(chars) THEN <<part>>
    ELSE IF chars[n] = sep THEN <<part>> \o SplitFrom(chars, sep, n + 1, <<>>)
    ELSE SplitFrom(chars, sep, n + 1, Append(part, chars[n]))

\* text.split(sep) for a separator of one character
Split(chars, sep) == SplitFrom(chars, sep, 1, <<>>)

\* "{value}" in an f-string, for None, an int and a str
Format(value) ==
    CASE value.k = "none" -> <<"N", "o", "n", "e">>
      [] value.k = "int" -> IntToChars(value.n)
      [] value.k = "str" -> value.chars

----------------------------------------------------------------------------
(* Cleaning functions: those of Cartographer, and the callables the        *)
(* coordinates carry.  "None" names a callable a coordinate does not set.  *)

\* Cartographer.clean_org
CartographerCleanOrg(course, coord) == course

\* Cartographer.clean_dst
CartographerCleanDst(course, coord, clean) ==
    IF course = NoneV
    THEN Course([n \in 1..Len(clean.org_list[1].b) |->
                    Fallback(clean.org_list[1].b[n].name)])
    ELSE course

\* Cartographer.clean_value
CartographerCleanValue(values, coord) == values

\* Course.with_end_point
WithEndPoint(course, end_point) ==
    Course(Append(SubSeq(course.b, 1, Len(course.b) - 1), end_point))

\* clean_a_orig: the origin course with the end point "a"
CleanAOrig(course, coord, cache) == Ok(WithEndPoint(course, Fallback("a")))

\* clean_b_dst: coordinate.org with the end point "b-extra"
CleanBDst(course, coord, cache) ==
    IF coord.org.k = "tuple" THEN Err("AttributeError")
    ELSE Ok(WithEndPoint(coord.org, Fallback("b-extra")))

\* marry_dimensions: f"{value[0]}x{value[1]}"
MarryDimensions(heap, value, coord, cache) ==
    LET items == IF value.k = "tuple" THEN value.items
                 ELSE [n \in 1..Len(value.chars) |-> StrV(<<value.chars[n]>>)]
    IN  IF value.k \in {"none", "int"} \/ IsObject(heap, value, "obj")
        THEN Err("TypeError")
        ELSE IF IsObject(heap, value, "dict") THEN Err("KeyError")
        ELSE IF Len(items) < 2 THEN Err("IndexError")
        ELSE Ok(StrV(Format(items[1]) \o <<"x">> \o Format(items[2])))

\* the return statement of split_dimensions after int(split[1])
SplitSecond(first, second) ==
    IF ~second.ok THEN second ELSE Ok(Tup(<<first.val, second.val>>))

\* the return statement of split_dimensions after int(split[0])
SplitFirst(split, first) ==
    IF ~first.ok THEN first
    ELSE IF Len(split) < 2 THEN Err("IndexError")
    ELSE SplitSecond(first, ParseInt(split[2]))

\* the return statement of split_dimensions
SplitInts(split) == SplitFirst(split, ParseInt(split[1]))

\* split_dimensions: the two numbers of "<n>x<m>"
SplitDimensions(value, coord, cache) ==
    IF value.k # "str" THEN Err("AttributeError")
    ELSE SplitInts(Split(value.chars, "x"))

\* the result of a value cleaner: its return value or its exception, and the
\* cache it leaves
Cleaned(value, cache) == [ok |-> TRUE, val |-> value, cache |-> cache]

CleanFail(e, cache) == [ok |-> FALSE, err |-> e, cache |-> cache]

\* cache[key] at position n of the cache, KeyError when n is 0
CacheEntry(cache, n) ==
    IF n = 0 THEN CleanFail("KeyError", cache)
    ELSE Cleaned(cache.items[n].val, cache)

\* the last two lines of extract_name
ExtractPart(dst_list, cache) ==
    IF Len(dst_list) = 0 THEN CleanFail("IndexError", cache)
    ELSE IF dst_list[1] = NoneV THEN CleanFail("AttributeError", cache)
    ELSE IF Len(dst_list[1].b) = 0 THEN CleanFail("IndexError", cache)
    ELSE CacheEntry(cache,
            KeyIndex(cache.items, "name." \o dst_list[1].b[Len(dst_list[1].b)].name))

\* extract_name after value.split(" ")
ExtractParts(name_parts, clean, cache) ==
    IF Len(name_parts) < 2
    THEN CleanFail("IndexError", SetEntry(cache, "name.first", StrV(name_parts[1])))
    ELSE ExtractPart(clean.dst_list,
            SetEntry(SetEntry(SetEntry(SetEntry(cache,
                "name.first", StrV(name_parts[1])),
                "name.last", StrV(name_parts[2])),
                "name.middle", NoneV),
                "name.suffix", StrV(name_parts[Len(name_parts)])))

\* extract_name: caches the parts of a name, returns the part the
\* destination end point names
ExtractName(value, coord, clean, cache) ==
    IF value.k # "str" THEN CleanFail("AttributeError", cache)
    ELSE ExtractParts(Split(value.chars, " "), clean, cache)

\* get_cached: the cached part the destination end point names
GetCached(value, coord, cache) ==
    IF coord.dst.k # "course" THEN CleanFail("AttributeError", cache)
    ELSE IF Len(coord.dst.b) = 0 THEN CleanFail("IndexError", cache)
    ELSE CacheEntry(cache,
            KeyIndex(cache.items, "name." \o coord.dst.b[Len(coord.dst.b)].name))

----------------------------------------------------------------------------
(* The helper functions of Cartographer.map *)

\* _get_cleaner for clean_org, and the call of the cleaner it returns
CallOrgCleaner(course, coord, clean, cache) ==
    IF coord.clean_org # "None"
    THEN CleanAOrig(course, coord, cache)
    ELSE Ok(CartographerCleanOrg(course, coord))

\* _get_cleaner for clean_dst, and the call of the cleaner it returns
CallDstCleaner(course, coord, clean, cache) ==
    IF coord.clean_dst # "None"
    THEN CleanBDst(course, coord, cache)
    ELSE Ok(CartographerCleanDst(course, coord, clean))

\* a cleaner that leaves the cache alone: its result and the cache
KeepCache(got, cache) ==
    IF got.ok THEN Cleaned(got.val, cache) ELSE CleanFail(got.err, cache)

\* _get_cleaner for clean_value, and the call of the cleaner it returns
CallValueCleaner(heap, value, coord, clean, cache) ==
    CASE coord.clean_value = "None" ->
            Cleaned(CartographerCleanValue(value, coord), cache)
      [] coord.clean_value = "marry_dimensions" ->
            KeepCache(MarryDimensions(heap, value, coord, cache), cache)
      [] coord.clean_value = "split_dimensions" ->
            KeepCache(SplitDimensions(value, coord, cache), cache)
      [] coord.clean_value = "extract_name" -> ExtractName(value, coord, clean, cache)
      [] coord.clean_value = "get_cached" -> GetCached(value, coord, cache)

\* the loop of _clean_courses left at position stop (past the list when no
\* cleaner raised): the list with every course before stop replaced
CleanedUpTo(courses, cleaned, stop) ==
    [ok |-> stop > Len(cleaned),
     err |-> IF stop > Len(cleaned) THEN "" ELSE cleaned[stop].err,
     list |-> [n \in 1..Len(courses) |->
                  IF n < stop THEN cleaned[n].val ELSE courses[n]]]

\* _clean_courses, given what the cleaner makes of every course
CleanCourses(courses, cleaned) == CleanedUpTo(courses, cleaned, FirstBad(cleaned))

\* _clean_courses with the cleaner of the origin courses
CleanOrgCourses(coord, clean, cache) ==
    CleanCourses(clean.org_list,
                 [n \in 1..Len(clean.org_list) |->
                     CallOrgCleaner(clean.org_list[n], coord, clean, cache)])

\* _clean_courses with the cleaner of the destination courses
CleanDstCourses(coord, clean, cache) ==
    CleanCourses(clean.dst_list,
                 [n \in 1..Len(clean.dst_list) |->
                     CallDstCleaner(clean.dst_list[n], coord, clean, cache)])

\* _fetch_org_value without its if statement: always the tuple
FetchedTuple(cleaned, fetched) ==
    IF FirstBad(fetched) <= Len(fetched)
    THEN [ok |-> FALSE, err |-> fetched[FirstBad(fetched)].err, clean |-> cleaned]
    ELSE [ok |-> TRUE, clean |-> cleaned,
          val |-> Tup([n \in 1..Len(fetched) |-> fetched[n].val])]

\* the last lines of _fetch_org_value: the tuple of the fetched values, its
\* first element when there is at most one origin course
FetchedValue(cleaned, fetched) ==
    IF FirstBad(fetched) <= Len(fetched)
    THEN [ok |-> FALSE, err |-> fetched[FirstBad(fetched)].err, clean |-> cleaned]
    ELSE IF Len(cleaned.org_list) > 1
    THEN [ok |-> TRUE, clean |-> cleaned,
          val |-> Tup([n \in 1..Len(fetched) |-> fetched[n].val])]
    ELSE IF Len(fetched) = 0
    THEN [ok |-> FALSE, err |-> "IndexError", clean |-> cleaned]
    ELSE [ok |-> TRUE, val |-> fetched[1].val, clean |-> cleaned]

\* _fetch_org_value after _clean_courses: the fetch of every
\* (origin course, default) pair
FetchCleaned(heap, origin_root, clean, courses) ==
    IF ~courses.ok
    THEN [ok |-> FALSE, err |-> courses.err,
          clean |-> [clean EXCEPT !.org_list = courses.list]]
    ELSE FetchedValue([clean EXCEPT !.org_list = courses.list],
                      [n \in 1..Min(Len(courses.list), Len(clean.default_list)) |->
                          CourseFetch(heap, courses.list[n], origin_root,
                                      clean.default_list[n])])

\* _fetch_org_value: the value (or the exception) and the scratch state with
\* the cleaned origin courses
FetchOrgValue(heap, cache, origin_root, coord, clean) ==
    FetchCleaned(heap, origin_root, clean, CleanOrgCourses(coord, clean, cache))

\* iter(values) in zip(values, dst_list): the elements of a tuple, the
\* characters of a str; None, an int and a dataclass instance are not iterable
IterValues(heap, values) ==
    CASE values.k = "tuple" -> Ok(values.items)
      [] values.k = "str" ->
            Ok([n \in 1..Len(values.chars) |-> StrV(<<values.chars[n]>>)])
      [] values.k \in {"none", "int"} -> Err("TypeError")
      [] IsObject(heap, values, "obj") -> Err("TypeError")

RECURSIVE PlaceEach(_, _, _, _, _)
RECURSIVE PlacedOne(_, _, _, _, _)
\* the loop of _place_dst_value from the n-th (value, destination) pair on
PlaceEach(heap, values, dst_list, n, destination_root) ==
    IF n > Min(Len(values), Len(dst_list)) THEN Done(heap)
    ELSE IF dst_list[n] = NoneV
    THEN PlaceEach(heap, values, dst_list, n + 1, destination_root)
    ELSE PlacedOne(CoursePlace(heap, dst_list[n], destination_root, values[n]),
                   values, dst_list, n, destination_root)

\* the loop of _place_dst_value after the place of the n-th pair
PlacedOne(placed, values, dst_list, n, destination_root) ==
    IF placed.ok THEN PlaceEach(placed.heap, values, dst_list, n + 1, destination_root)
    ELSE placed

\* what _place_dst_value leaves
Placed(cleaned, placed) ==
    [ok |-> placed.ok, err |-> IF placed.ok THEN "" ELSE placed.err,
     heap |-> placed.heap, clean |-> cleaned]

\* _place_dst_value from zip(values, dst_list) on
PlaceValues(heap, destination_root, cleaned, values) ==
    IF ~values.ok
    THEN [ok |-> FALSE, err |-> values.err, heap |-> heap, clean |-> cleaned]
    ELSE Placed(cleaned, PlaceEach(heap, values.val, cleaned.dst_list, 1,
                                   destination_root))

\* _place_dst_value without its if statement: the value is always zipped
PlaceZipped(heap, destination_root, clean, courses) ==
    IF ~courses.ok
    THEN [ok |-> FALSE, err |-> courses.err, heap |-> heap,
          clean |-> [clean EXCEPT !.dst_list = courses.list]]
    ELSE PlaceValues(heap, destination_root,
                     [clean EXCEPT !.dst_list = courses.list],
                     IterValues(heap, clean.value))

\* _place_dst_value after _clean_courses
PlaceCleaned(heap, destination_root, clean, courses) ==
    IF ~courses.ok
    THEN [ok |-> FALSE, err |-> courses.err, heap |-> heap,
          clean |-> [clean EXCEPT !.dst_list = courses.list]]
    ELSE PlaceValues(heap, destination_root,
                     [clean EXCEPT !.dst_list = courses.list],
                     IF Len(courses.list) <= 1 THEN Ok(<<clean.value>>)
                     ELSE IterValues(heap, clean.value))

\* _place_dst_value: the heap (or the exception) and the scratch state with
\* the cleaned destination courses
PlaceDstValue(heap, cache, destination_root, coord, clean) ==
    PlaceCleaned(heap, destination_root, clean, CleanDstCourses(coord, clean, cache))

\* what _map_coordinate leaves: the heap, the scratch state and the cache,
\* the exception it raised if it raised one and the step it raised at, and
\* the value it handed to the value cleaner
Mapped(ok, err, heap, clean, cache, at, fetched) ==
    [ok |-> ok, err |-> err, heap |-> heap, clean |-> clean, cache |-> cache,
     at |-> at, fetched |-> fetched]

\* _map_coordinate after _place_dst_value
MapPlaced(fetched, value, placed) ==
    Mapped(placed.ok, placed.err, placed.heap, placed.clean, value.cache,
           IF placed.ok THEN "end" ELSE "place", fetched)

\* _map_coordinate after the call of the value cleaner
MapCleaned(heap, destination_root, coord, got, value) ==
    IF ~value.ok
    THEN Mapped(FALSE, value.err, heap, got, value.cache, "clean", got.value)
    ELSE MapPlaced(got.value, value,
                   PlaceDstValue(heap, value.cache, destination_root, coord,
                                 [got EXCEPT !.value = value.val]))

\* _map_coordinate after its first statement
MapFetched(heap, cache, destination_root, coord, fetched) ==
    IF ~fetched.ok
    THEN Mapped(FALSE, fetched.err, heap, fetched.clean, cache, "fetch", NoneV)
    ELSE MapCleaned(heap, destination_root, coord,
                    [fetched.clean EXCEPT !.value = fetched.val],
                    CallValueCleaner(heap, fetched.val, coord,
                                     [fetched.clean EXCEPT !.value = fetched.val],
                                     cache))

\* _map_coordinate
MapCoordinate(heap, cache, origin_root, destination_root, coord, clean) ==
    MapFetched(heap, cache, destination_root, coord,
               IF clean.value = NoneV
               THEN FetchOrgValue(heap, cache, origin_root, coord, clean)
               ELSE [ok |-> TRUE, val |-> clean.value, clean |-> clean])

----------------------------------------------------------------------------
(* Compass and Surveyor *)

\* Compass.__init__ with attrs = True, items = True, calls = False;
\* any_type stands for target_types = None
Compass(any_type, target_types) == [any_type |-> any_type, target_types |-> target_types]

\* Surveyor.__init__
Surveyor(compasses, end_points) ==
    [k |-> "surveyor", compasses |-> compasses, end_points |-> end_points]

DEFAULT_COMPASSES == <<Compass(TRUE, {})>>

\* DEFAULT_END_POINTS: of (str, int, float, type) the types the model has
DEFAULT_END_POINTS == {"str", "int"}

\* type(value)
TypeOf(heap, value) ==
    IF value.k = "ref" THEN heap[value.id].k
    ELSE IF value.k = "none" THEN "NoneType"
    ELSE value.k

\* Compass.is_navigable
IsNavigable(compass, heap, target) ==
    IF compass.any_type THEN TRUE
    ELSE TypeOf(heap, target) \in compass.target_types

\* x.startswith("_"), for the names of the model
StartsWithUnderscore(x) == x \in {"_h"}

\* the public entries of target.__dict__
PublicEntries(items) == SelectSeq(items, LAMBDA entry : ~StartsWithUnderscore(entry.key))

\* Compass.attr_iter with attrs = True: the entries of target.__dict__ whose
\* names do not start with an underscore
AttrIter(compass, heap, target) ==
    IF IsObject(heap, target, "obj")
    THEN [n \in 1..Len(PublicEntries(heap[target.id].items)) |->
            <<Attr(PublicEntries(heap[target.id].items)[n].key),
              PublicEntries(heap[target.id].items)[n].val>>]
    ELSE <<>>

\* Compass.call_iter with calls = False
CallIter(compass, heap, target) == <<>>

\* an enumeration that counts from 1
EnumeratedFromOne(items) == [n \in 1..Len(items) |-> <<Item(ToString(n)), items[n]>>]

\* zip(itertools.count(0), target) of a Sequence, as (Item, value) pairs
Enumerated(items) == [n \in 1..Len(items) |-> <<Item(ToString(n - 1)), items[n]>>]

\* an item_iter that knows Mappings only
ItemIterMapping(compass, heap, target) ==
    IF IsObject(heap, target, "dict")
    THEN [n \in 1..Len(heap[target.id].items) |->
            <<Item(heap[target.id].items[n].key), heap[target.id].items[n].val>>]
    ELSE <<>>

\* Compass.item_iter with items = True: the items of a Mapping, the indexes
\* and elements of a Sequence (a list, a tuple, the characters of a str)
ItemIter(compass, heap, target) ==
    IF IsObject(heap, target, "dict")
    THEN [n \in 1..Len(heap[target.id].items) |->
            <<Item(heap[target.id].items[n].key), heap[target.id].items[n].val>>]
    ELSE IF IsObject(heap, target, "list") THEN Enumerated(heap[target.id].items)
    ELSE IF target.k = "tuple" THEN Enumerated(target.items)
    ELSE IF target.k = "str"
    THEN Enumerated([n \in 1..Len(target.chars) |-> StrV(<<target.chars[n]>>)])
    ELSE <<>>

\* Compass.bearings_iter: the *_iter methods in the order of dir(cls)
BearingsIter(compass, heap, target) ==
    AttrIter(compass, heap, target) \o CallIter(compass, heap, target)
        \o ItemIter(compass, heap, target)

\* a class: its __name__, its base (0 for object) and its __dict__
ClassObj(name, base, items) ==
    [k |-> "class", name |-> name, base |-> base, items |-> items]

\* a method, named by what it does
IterMethod(does) == [k |-> "function", does |-> does]

RECURSIVE ClassHasAttr(_, _, _)
\* hasattr(cls, name): cls or one of its bases has the entry
ClassHasAttr(heap, cls, name) ==
    IF cls = 0 THEN FALSE
    ELSE IF KeyIndex(heap[cls].items, name) # 0 THEN TRUE
    ELSE ClassHasAttr(heap, heap[cls].base, name)

RECURSIVE ClassGetAttr(_, _, _)
\* getattr(cls, name): the entry of cls, or of the nearest base that has it
ClassGetAttr(heap, cls, name) ==
    IF KeyIndex(heap[cls].items, name) # 0
    THEN heap[cls].items[KeyIndex(heap[cls].items, name)].val
    ELSE ClassGetAttr(heap, heap[cls].base, name)

\* the names that end with "_iter", bearings_iter left out, in the order of
\* dir()
ITER_NAMES == <<"attr_iter", "call_iter", "extra_iter", "item_iter">>

\* the names of dir(cls) the loop of Compass.__new__ keeps
IterNames(heap, cls) == SelectSeq(ITER_NAMES, LAMBDA name : ClassHasAttr(heap, cls, name))

\* methods of the loop of Compass.__new__
DiscoveredMethods(heap, cls) ==
    [n \in 1..Len(IterNames(heap, cls)) |-> ClassGetAttr(heap, cls, IterNames(heap, cls)[n])]

\* Compass.__new__: the classes after it
CompassNew(heap, cls) ==
    IF ClassGetAttr(heap, cls, "_BEARING_ITER_CLASS") = heap[cls].name THEN heap
    ELSE [heap EXCEPT ![cls] =
            SetEntry(SetEntry(@, "_BEARING_ITER_METHODS", DiscoveredMethods(heap, cls)),
                     "_BEARING_ITER_CLASS", heap[cls].name)]

\* what a *_iter method yields: those of Compass, one that raises
\* NotImplementedError, and one that yields (Item("extra"), 1)
MethodYields(method, compass, heap, target) ==
    CASE method.does = "attr_iter" -> AttrIter(compass, heap, target)
      [] method.does = "call_iter" -> CallIter(compass, heap, target)
      [] method.does = "item_iter" -> ItemIter(compass, heap, target)
      [] method.does = "not_implemented" -> <<>>
      [] method.does = "extra" -> <<<<Item("extra"), IntV(1)>>>>

RECURSIVE YieldFrom(_, _, _, _, _)
\* the loop of Compass.bearings_iter from the n-th method on
YieldFrom(methods, n, compass, heap, target) ==
    IF n > Len(methods) THEN <<>>
    ELSE MethodYields(methods[n], compass, heap, target)
            \o YieldFrom(methods, n + 1, compass, heap, target)

\* Compass.bearings of an instance of cls
ClassBearings(heap, cls, compass, target) ==
    IF ~IsNavigable(compass, heap, target) THEN Err("NonNavigableError")
    ELSE Ok(YieldFrom(ClassGetAttr(heap, cls, "_BEARING_ITER_METHODS"), 1,
                      compass, heap, target))

\* Surveyor._choose_compass: the position of the first compass the target is
\* navigable for, 0 for NonNavigableError
ChooseCompass(surveyor, heap, target) ==
    IF \A n \in 1..Len(surveyor.compasses) :
            ~IsNavigable(surveyor.compasses[n], heap, target)
    THEN 0
    ELSE Least({n \in 1..Len(surveyor.compasses) :
                    IsNavigable(surveyor.compasses[n], heap, target)})

\* what a generator has yielded: the (course, value) pairs, the errors it
\* yielded among them, and whether it ended by raising NonNavigableError
Yielded(chart, errors, raised) == [chart |-> chart, errors |-> errors, raised |-> raised]

\* a loop of _chart_layer that ends when the layer below has yielded an error
YieldedPairEnds(pair, below, rest) ==
    IF below.raised \/ below.errors # <<>>
    THEN Yielded(<<pair>> \o below.chart, below.errors, below.raised)
    ELSE Yielded(<<pair>> \o below.chart \o rest.chart, rest.errors, rest.raised)

\* a (course, value) pair is yielded, then what _chart_layer yields for the
\* value, then what the rest of the loop yields
YieldedPair(pair, below, rest) ==
    IF below.raised
    THEN Yielded(<<pair>> \o below.chart, below.errors, TRUE)
    ELSE Yielded(<<pair>> \o below.chart \o rest.chart, below.errors \o rest.errors,
                 rest.raised)

RECURSIVE ChartLayer(_, _, _, _, _)
RECURSIVE ChartCompass(_, _, _, _, _, _)
RECURSIVE ChartBearings(_, _, _, _, _, _)
\* Surveyor._chart_layer
ChartLayer(surveyor, heap, target, parent_course, exceptions) ==
    ChartCompass(surveyor, heap, target, parent_course, exceptions,
                 ChooseCompass(surveyor, heap, target))

\* Surveyor._chart_layer after _choose_compass
ChartCompass(surveyor, heap, target, parent_course, exceptions, compass) ==
    IF compass = 0
    THEN IF exceptions THEN Yielded(<<>>, <<>>, TRUE)
         ELSE Yielded(<<>>, <<[error |-> "NonNavigableError", target |-> target]>>,
                      FALSE)
    ELSE ChartBearings(surveyor, heap,
                       BearingsIter(surveyor.compasses[compass], heap, target),
                       1, parent_course, exceptions)

\* the loop of Surveyor._chart_layer from the n-th (bearing, value) pair on
ChartBearings(surveyor, heap, pairs, n, parent_course, exceptions) ==
    IF n > Len(pairs) THEN Yielded(<<>>, <<>>, FALSE)
    ELSE YieldedPair(
            <<Course(Append(parent_course.b, pairs[n][1])), pairs[n][2]>>,
            IF pairs[n][2].k = "none" \/ TypeOf(heap, pairs[n][2]) \in surveyor.end_points
            THEN Yielded(<<>>, <<>>, FALSE)
            ELSE ChartLayer(surveyor, heap, pairs[n][2],
                            Course(Append(parent_course.b, pairs[n][1])), exceptions),
            ChartBearings(surveyor, heap, pairs, n + 1, parent_course, exceptions))

\* Surveyor.chart_iter and Surveyor.chart, given what _chart_layer yields: the
\* chart, or NonNavigableError, or SuppressedErrors with its errors and its
\* chart_partial
Charted(got) ==
    IF got.raised
    THEN [ok |-> FALSE, err |-> "NonNavigableError", errors |-> <<>>, chart |-> <<>>]
    ELSE IF got.errors # <<>>
    THEN [ok |-> FALSE, err |-> "SuppressedErrors", errors |-> got.errors,
          chart |-> got.chart]
    ELSE [ok |-> TRUE, err |-> "", errors |-> <<>>, chart |-> got.chart]

\* Surveyor.chart
SurveyorChart(surveyor, heap, target, exceptions) ==
    Charted(ChartLayer(surveyor, heap, target, PORT, exceptions))

\* the key of course_chart.sort in _chart_survey: len(x) of a
\* (course, value) pair
SortKey(x) == Len(x)

\* x put into a list sorted by greater keys first, after the elements whose
\* keys are not less than its own
Insert(sorted, x, n) == SubSeq(sorted, 1, n) \o <<x>> \o SubSeq(sorted, n + 1, Len(sorted))

\* the elements of a list whose keys are not less than that of x
KeysNotLess(sorted, x) ==
    Cardinality({m \in 1..Len(sorted) : SortKey(sorted[m]) >= SortKey(x)})

\* x put into its place in a sorted list
InsertSorted(sorted, x) == Insert(sorted, x, KeysNotLess(sorted, x))

RECURSIVE SortReverse(_, _)
\* list.sort(key = SortKey, reverse = True) of the first n elements: stable,
\* greater keys first
SortReverse(list, n) ==
    IF n = 0 THEN <<>> ELSE InsertSorted(SortReverse(list, n - 1), list[n])

----------------------------------------------------------------------------
(* Cartographer.map, one step per iteration of its loops *)

VARIABLES
    heap,            \* the objects
    origins,         \* the origin roots a call may be given
    origin_root,     \* map's origin_root
    dst_root,        \* map's dst_root
    coordinates,     \* map's coordinates
    surveyor,        \* map's surveyor, NoneV for None
    exceptions,      \* map's exceptions
    clean,           \* coordinate.clean of every coordinate of coordinates
    cache,           \* Cartographer.cache
    pc,              \* where map is: "idle", "coordinates", "survey", "done"
    i,               \* position of _map_coordinates in coordinates
    mapped_courses,  \* mapped of _map_coordinates, mapped_courses afterwards
    error_list,      \* error_list of map
    course_chart,    \* course_chart of _chart_survey, sorted
    j,               \* position of _map_survey_chart in course_chart
    raised,          \* the exception the call ended with, "" for none
    calls_left,      \* how many more calls of map are made
    calls,           \* history: the calls of map made
    before,          \* history: clean as the current call found it
    log              \* history: what the current call did, step by step

vars == <<heap, origins, origin_root, dst_root, coordinates, surveyor, exceptions,
          clean, cache, pc, i, mapped_courses, error_list, course_chart, j, raised,
          calls_left, calls, before, log>>

\* the arguments of map and the engine, fixed over the calls
args == <<origins, dst_root, coordinates, surveyor, exceptions>>

UNSET == [k |-> "unset"]

Error(name, phase, n) == [error |-> name, phase |-> phase, n |-> n]

\* a map that sets coordinate.clean only on a coordinate that has none
ResetCleanOnce(coords, old) ==
    [n \in 1..Len(coords) |-> IF old[n] = UNSET THEN CleanData(coords[n]) ELSE old[n]]

\* the lines of map before _map_coordinates, and the first lines of
\* _map_coordinates: a fresh CleanData on every coordinate
ResetClean(coords, old) == [n \in 1..Len(coords) |-> CleanData(coords[n])]

\* map is called with an origin root
MapCall(origin) ==
    /\ pc \in {"idle", "done"}
    /\ calls_left > 0
    /\ origin_root' = origin
    /\ before' = clean
    /\ clean' = ResetClean(coordinates, clean)
    /\ mapped_courses' = <<>>
    /\ error_list' = <<>>
    /\ course_chart' = <<>>
    /\ i' = 1
    /\ j' = 1
    /\ raised' = ""
    /\ log' = <<>>
    /\ calls' = calls + 1
    /\ calls_left' = calls_left - 1
    /\ pc' = "coordinates"
    /\ UNCHANGED <<heap, cache, args>>

\* a try statement without the except clause: every exception is raised
TryRaise(done, suppress) == IF done.ok THEN "mapped" ELSE "raised"

\* a try statement whose except clause never raises: every NullNameError is
\* appended to error_list
TrySuppress(done, suppress) ==
    IF done.ok THEN "mapped"
    ELSE IF done.err = "NullNameError" THEN "suppressed"
    ELSE "raised"

\* a try statement that catches every exception
TrySuppressAll(done, suppress) ==
    IF done.ok THEN "mapped"
    ELSE IF suppress THEN "suppressed"
    ELSE "raised"

\* what the try statement of _map_coordinates and of _map_survey_chart does
\* with the outcome of _map_coordinate: "mapped", "suppressed" (the error is
\* appended to error_list) or "raised"
TryOutcome(done, suppress) ==
    IF done.ok THEN "mapped"
    ELSE IF done.err = "NullNameError" /\ suppress THEN "suppressed"
    ELSE "raised"

\* an entry of the history of a call
Logged(phase, n, outcome, course, done) ==
    [phase |-> phase, n |-> n, outcome |-> outcome, err |-> done.err, at |-> done.at,
     course |-> course, fetched |-> done.fetched, clean |-> done.clean]

\* the try statement of _map_coordinates after _map_coordinate
CoordinateTried(done, outcome) ==
    /\ heap' = done.heap
    /\ cache' = done.cache
    /\ clean' = [clean EXCEPT ![i] = done.clean]
    /\ mapped_courses' = IF outcome = "mapped"
                         THEN Append(mapped_courses, done.clean.org_list[1])
                         ELSE mapped_courses
    /\ error_list' = IF outcome = "suppressed"
                     THEN Append(error_list, Error(done.err, "coordinates", i))
                     ELSE error_list
    /\ raised' = IF outcome = "raised" THEN done.err ELSE raised
    /\ pc' = IF outcome = "raised" THEN "done" ELSE pc
    /\ i' = IF outcome = "raised" THEN i ELSE i + 1
    /\ log' = Append(log, Logged("coordinates", i, outcome,
                                 done.clean.org_list[1], done))

\* _map_coordinate is over for the i-th coordinate
CoordinateDone(done) == CoordinateTried(done, TryOutcome(done, ~exceptions))

\* one iteration of the loop of _map_coordinates
MapCoordinatesStep ==
    /\ pc = "coordinates"
    /\ i <= Len(coordinates)
    /\ CoordinateDone(MapCoordinate(heap, cache, origin_root, dst_root,
                                    coordinates[i], clean[i]))
    /\ UNCHANGED <<args, origin_root, course_chart, j, calls_left, calls, before>>

\* a _chart_survey that puts the errors of the chart before those of the
\* coordinates
ChartSortedFirst(got) ==
    IF got.err = "NonNavigableError"
    THEN /\ raised' = got.err
         /\ pc' = "done"
         /\ UNCHANGED <<error_list, course_chart>>
    ELSE /\ error_list' =
                 [n \in 1..Len(got.errors) |-> Error(got.errors[n].error, "chart", n)]
                 \o error_list
         /\ course_chart' = SortReverse(got.chart, Len(got.chart))
         /\ pc' = "survey"
         /\ UNCHANGED raised

\* _chart_survey after surveyor.chart, up to the sort of the chart
ChartSorted(got) ==
    IF got.err = "NonNavigableError"
    THEN /\ raised' = got.err
         /\ pc' = "done"
         /\ UNCHANGED <<error_list, course_chart>>
    ELSE /\ error_list' = error_list \o
                 [n \in 1..Len(got.errors) |-> Error(got.errors[n].error, "chart", n)]
         /\ course_chart' = SortReverse(got.chart, Len(got.chart))
         /\ pc' = "survey"
         /\ UNCHANGED raised

\* _chart_survey up to the sort of the chart
ChartSurvey ==
    /\ pc = "coordinates"
    /\ i > Len(coordinates)
    /\ surveyor # NoneV
    /\ ChartSorted(SurveyorChart(surveyor, heap, origin_root, exceptions))
    /\ j' = 1
    /\ UNCHANGED <<args, heap, origin_root, clean, cache, i, mapped_courses,
                   calls_left, calls, before, log>>

\* the first test of _map_survey_chart alone
AlreadyWithin(course, mapped) ==
    \E n \in 1..Len(mapped) : CourseContains(mapped[n], course)

\* the two tests of _map_survey_chart that skip a charted course
AlreadyMapped(course, mapped) ==
    \/ \E n \in 1..Len(mapped) : CourseContains(mapped[n], course)
    \/ \E n \in 1..Len(mapped) : CourseContains(course, mapped[n])

\* the coordinate _map_survey_chart makes of a charted course
SurveyCoordinate(course) == Coordinate(course, NoneV, "None", "None", "None", NO_DEFAULT)

\* the scratch state _map_survey_chart gives that coordinate
SurveyClean(course, value) ==
    [CleanData(SurveyCoordinate(course)) EXCEPT !.value = value]

\* the continue statements of _map_survey_chart
SurveySkipped(course) ==
    /\ log' = Append(log, [phase |-> "survey", n |-> j, outcome |-> "skipped",
                           err |-> "", at |-> "", course |-> course,
                           fetched |-> NoneV, clean |-> UNSET])
    /\ j' = j + 1
    /\ UNCHANGED <<heap, cache, mapped_courses, error_list, raised, pc>>

\* the try statement of _map_survey_chart after _map_coordinate, and the
\* append to mapped_courses
SurveyTried(course, done, outcome) ==
    /\ heap' = done.heap
    /\ cache' = done.cache
    /\ error_list' = IF outcome = "suppressed"
                     THEN Append(error_list, Error(done.err, "survey", j))
                     ELSE error_list
    /\ mapped_courses' = IF outcome = "raised" THEN mapped_courses
                         ELSE Append(mapped_courses, course)
    /\ raised' = IF outcome = "raised" THEN done.err ELSE raised
    /\ pc' = IF outcome = "raised" THEN "done" ELSE pc
    /\ j' = IF outcome = "raised" THEN j ELSE j + 1
    /\ log' = Append(log, Logged("survey", j, outcome, course, done))

\* _map_coordinate is over for the j-th charted course
SurveyDone(course, done) == SurveyTried(course, done, TryOutcome(done, ~exceptions))

\* one iteration of the loop of _map_survey_chart
MapSurveyStep ==
    /\ pc = "survey"
    /\ j <= Len(course_chart)
    /\ IF AlreadyMapped(course_chart[j][1], mapped_courses)
       THEN SurveySkipped(course_chart[j][1])
       ELSE SurveyDone(course_chart[j][1],
                       MapCoordinate(heap, cache, origin_root, dst_root,
                                     SurveyCoordinate(course_chart[j][1]),
                                     SurveyClean(course_chart[j][1],
                                                 course_chart[j][2])))
    /\ UNCHANGED <<args, origin_root, clean, i, course_chart, calls_left, calls, before>>

\* the loops of map are over
LoopsOver ==
    IF surveyor = NoneV THEN pc = "coordinates" /\ i > Len(coordinates)
    ELSE pc = "survey" /\ j > Len(course_chart)

\* the last lines of map: SuppressedErrors if error_list is not empty
RaiseSuppressed ==
    /\ LoopsOver
    /\ raised' = IF error_list # <<>> THEN "SuppressedErrors" ELSE ""
    /\ pc' = "done"
    /\ UNCHANGED <<args, heap, origin_root, clean, cache, i, mapped_courses, error_list,
                   course_chart, j, calls_left, calls, before, log>>

Next ==
    \/ \E origin \in origins : MapCall(origin)
    \/ MapCoordinatesStep
    \/ ChartSurvey
    \/ MapSurveyStep
    \/ RaiseSuppressed

----------------------------------------------------------------------------
(* The objects, the coordinates and the calls that are checked *)

\* the objects: origin roots 1 (a dict), 2 (a dataclass instance), 3 (a dict
\* with the nested dict 4), 5 and 13 (dicts of photo information), 11 (a dict
\* with the dataclass instance 12); destination roots 6 (an empty dict), 7 (a
\* dataclass instance with the one field b), 8 (a dict with the empty dicts 9
\* and 10)
HEAP ==
    << DictObj(<<KV("a", IntV(1)), KV("d", IntV(4))>>),
       DataObj(<<KV("a", IntV(1)), KV("b", IntV(2))>>),
       DictObj(<<KV("x", IntV(7)), KV("a", Ref(4)), KV("b", IntV(9))>>),
       DictObj(<<KV("b", IntV(2)), KV("c", IntV(3))>>),
       DictObj(<<KV("width", IntV(19)), KV("height", IntV(10)),
                 KV("resolution", StrV(<<"1", "2", "x", "7">>)),
                 KV("name", StrV(<<"W", " ", "P", " ", "I">>))>>),
       DictObj(<<>>),
       DataObj(<<KV("b", NoneV)>>),
       DictObj(<<KV("a", Ref(9)), KV("name", Ref(10))>>),
       DictObj(<<>>),
       DictObj(<<>>),
       DictObj(<<KV("a", IntV(1)), KV("o", Ref(12)), KV("b", IntV(2))>>),
       DataObj(<<KV("p", IntV(5))>>),
       DictObj(<<KV("width", IntV(8)), KV("height", IntV(6)),
                 KV("resolution", StrV(<<"3", "x", "4">>)),
                 KV("name", StrV(<<"A", " ", "B">>))>>) >>

\* Course() / name / ... for names that parse to Fallback bearings
Path(names) == Course([n \in 1..Len(names) |-> Fallback(names[n])])

\* Coordinate(org): no destination, no cleaning function, no default
Plain(org) == Coordinate(org, NoneV, "None", "None", "None", NO_DEFAULT)

\* Surveyor()
SURVEYOR == Surveyor(DEFAULT_COMPASSES, DEFAULT_END_POINTS)

\* Surveyor(compasses=[Compass(target_types=dict)])
SURVEYOR_DICT == Surveyor(<<Compass(FALSE, {"dict"})>>, DEFAULT_END_POINTS)

\* the lists of at most n elements of S
ListsOf(S, n) == UNION {[1..m -> S] : m \in 0..n}

\* the state before the first call of map
Idle ==
    /\ heap = HEAP
    /\ origin_root = NoneV
    /\ clean = [n \in 1..Len(coordinates) |-> UNSET]
    /\ cache = DictObj(<<>>)
    /\ pc = "idle"
    /\ i = 1
    /\ j = 1
    /\ mapped_courses = <<>>
    /\ error_list = <<>>
    /\ course_chart = <<>>
    /\ raised = ""
    /\ calls = 0
    /\ before = <<>>
    /\ log = <<>>

MaxCoords == 3

\* plain coordinates, some of which name what the origin or the destination
\* does not have, and one whose Item bearing a dataclass instance does not
\* support
PLAIN_COORDINATES ==
    {Plain(Path(<<"a">>)), Plain(Path(<<"b">>)), Plain(Path(<<"d">>)),
     Plain(Course(<<Item("a")>>))}

\* one call of map with a list of plain coordinates
Init ==
    /\ origins = {Ref(1), Ref(2)}
    /\ dst_root \in {Ref(6), Ref(7)}
    /\ coordinates \in ListsOf(PLAIN_COORDINATES, MaxCoords)
    /\ surveyor \in {NoneV, SURVEYOR}
    /\ exceptions \in BOOLEAN
    /\ calls_left = 1
    /\ Idle

Spec == Init /\ [][Next]_vars

MaxCalls == 2

MaxReuseCoords == 2

\* coordinates whose value cleaners write and read the cache or change the
\* shape of the value, a plain one, and one the origin does not have
REUSE_COORDINATES ==
    {Coordinate(Path(<<"name">>), Path(<<"name", "first">>),
                "None", "None", "extract_name", NO_DEFAULT),
     Coordinate(Path(<<"name">>), Path(<<"name", "last">>),
                "None", "None", "get_cached", NO_DEFAULT),
     Coordinate(Path(<<"resolution">>), Tup(<<Path(<<"x">>), Path(<<"y">>)>>),
                "None", "None", "split_dimensions", NO_DEFAULT),
     Plain(Path(<<"width">>)),
     Plain(Path(<<"depth">>))}

\* calls of map on one engine with the same coordinate objects and
\* destination, each with one of two origins
InitReuse ==
    /\ origins = {Ref(5), Ref(13)}
    /\ dst_root = Ref(8)
    /\ coordinates \in ListsOf(REUSE_COORDINATES, MaxReuseCoords)
    /\ surveyor \in {NoneV, SURVEYOR}
    /\ exceptions \in BOOLEAN
    /\ calls_left = MaxCalls
    /\ Idle

SpecReuse == InitReuse /\ [][Next]_vars

MaxSurveyCoords == 2

\* single-origin coordinates into nested origins, one of which has an Item
\* bearing where an origin has a dataclass instance, one an Item bearing as
\* destination and one a destination below the destination of another
SURVEY_COORDINATES ==
    {Plain(Path(<<"a", "b">>)), Plain(Path(<<"a", "c">>)), Plain(Path(<<"a">>)),
     Plain(Path(<<"x">>)), Plain(Path(<<"b">>)), Plain(Path(<<"q">>)),
     Plain(Course(<<Fallback("o"), Item("p")>>)),
     Coordinate(Path(<<"b">>), Course(<<Item("b")>>), "None", "None", "None", NO_DEFAULT),
     Coordinate(Path(<<"x">>), Path(<<"a", "b">>), "None", "None", "None", NO_DEFAULT)}

\* one call of map with a surveyor on a nested origin
InitSurvey ==
    /\ origins = {Ref(3), Ref(11)}
    /\ dst_root \in {Ref(6), Ref(7), Ref(8)}
    /\ coordinates \in ListsOf(SURVEY_COORDINATES, MaxSurveyCoords)
    /\ surveyor \in {SURVEYOR, SURVEYOR_DICT}
    /\ exceptions \in BOOLEAN
    /\ calls_left = 1
    /\ Idle

SpecSurvey == InitSurvey /\ [][Next]_vars

MaxShapeCoords == 2

\* coordinates with several origins, several destinations, defaults and
\* value cleaners
SHAPE_COORDINATES ==
    {Coordinate(Tup(<<Path(<<"width">>), Path(<<"height">>)>>), Path(<<"dimensions">>),
                "None", "None", "marry_dimensions", NO_DEFAULT),
     Coordinate(Tup(<<Path(<<"width">>), Path(<<"height">>)>>), NoneV,
                "None", "None", "None", NO_DEFAULT),
     Coordinate(Path(<<"resolution">>), Tup(<<Path(<<"x">>), Path(<<"y">>)>>),
                "None", "None", "split_dimensions", NO_DEFAULT),
     Coordinate(Path(<<"resolution">>), Path(<<"size">>),
                "None", "None", "split_dimensions", NO_DEFAULT),
     Coordinate(Path(<<"resolution">>), Tup(<<Path(<<"x">>), NoneV>>),
                "None", "None", "split_dimensions", NO_DEFAULT),
     Coordinate(Tup(<<Path(<<"width">>), Path(<<"depth">>)>>), Path(<<"volume">>),
                "None", "None", "marry_dimensions", Tup(<<IntV(1), IntV(2)>>)),
     Coordinate(Tup(<<Path(<<"depth">>), Path(<<"height">>)>>), Path(<<"volume">>),
                "None", "None", "None", Tup(<<NO_DEFAULT, IntV(3)>>)),
     Coordinate(Path(<<"depth">>), Path(<<"deep">>),
                "None", "None", "None", IntV(3)),
     Coordinate(Path(<<"depth">>), Path(<<"deep">>),
                "None", "None", "None", Tup(<<IntV(1), IntV(2)>>)),
     Coordinate(Path(<<"depth">>), Path(<<"deep">>),
                "None", "None", "None", Tup(<<>>)),
     Plain(Path(<<"height">>))}

\* one call of map with coordinates of every shape
InitShape ==
    /\ origins = {Ref(5), Ref(13)}
    /\ dst_root = Ref(6)
    /\ coordinates \in ListsOf(SHAPE_COORDINATES, MaxShapeCoords)
    /\ surveyor \in {NoneV, SURVEYOR}
    /\ exceptions \in BOOLEAN
    /\ calls_left = 1
    /\ Idle

SpecShape == InitShape /\ [][Next]_vars

----------------------------------------------------------------------------
(* Calls of the methods of bearings and courses.  The state is the objects; *)
(* log is the history of the calls made on them and raised the exception   *)
(* of the last call.                                                       *)

\* what the variables of Cartographer.map hold while no cartographer is used
NoMap ==
    /\ origins = {}
    /\ origin_root = NoneV
    /\ dst_root = NoneV
    /\ coordinates = <<>>
    /\ surveyor = NoneV
    /\ exceptions = TRUE
    /\ clean = <<>>
    /\ cache = DictObj(<<>>)
    /\ pc = "idle"
    /\ i = 1
    /\ j = 1
    /\ mapped_courses = <<>>
    /\ error_list = <<>>
    /\ course_chart = <<>>
    /\ raised = ""
    /\ calls = 0
    /\ before = <<>>
    /\ log = <<>>

\* a call of op on self has returned, or raised: got is its result and h the
\* objects after it
Returned(op, self, target, arg, got, h) ==
    /\ calls_left > 0
    /\ log' = Append(log, [op |-> op, self |-> self, target |-> target, arg |-> arg,
                           ok |-> got.ok, val |-> IF got.ok THEN got.val ELSE NoneV,
                           err |-> IF got.ok THEN "" ELSE got.err, before |-> heap])
    /\ heap' = h
    /\ raised' = IF got.ok THEN "" ELSE got.err
    /\ calls' = calls + 1
    /\ calls_left' = calls_left - 1
    /\ UNCHANGED <<args, origin_root, clean, cache, pc, i, mapped_courses, error_list,
                   course_chart, j, before>>

\* the result of a place: None, or the exception
Placing(done) == IF done.ok THEN Ok(NoneV) ELSE Err(done.err)

\* bearing.fetch(target)
BearingFetchCall(b, target) ==
    Returned("Bearing.fetch", b, target, NoneV, BearingFetch(heap, b, target), heap)

\* the objects and the result of bearing.place(target, value)
BearingPlaced(b, target, value, done) ==
    Returned("Bearing.place", b, target, value, Placing(done), done.heap)

\* bearing.place(target, value)
BearingPlaceCall(b, target, value) ==
    BearingPlaced(b, target, value, BearingPlace(heap, b, target, value))

\* course.fetch(target, default=default)
CourseFetchCall(course, target, default) ==
    Returned("Course.fetch", course, target, default,
             CourseFetch(heap, course, target, default), heap)

\* the objects and the result of course.place(target, value)
CoursePlaced(course, target, value, done) ==
    Returned("Course.place", course, target, value, Placing(done), done.heap)

\* course.place(target, value)
CoursePlaceCall(course, target, value) ==
    CoursePlaced(course, target, value, CoursePlace(heap, course, target, value))

\* the objects of the calls: 1 a dict with the nested dict 2, 3 and 4 lists,
\* 5 an instance of TestData with its setter method, 6 an instance of
\* DataCallable with its getter method, 7 and 8 objects whose item access
\* raises KeyError and IndexError, 9 a dict with the list 3, 10 an instance
\* whose attribute is None
ACCESS_HEAP ==
    << DictObj(<<KV("a", Ref(2)), KV("n", IntV(1))>>),
       DictObj(<<KV("k", IntV(1))>>),
       ListObj(<<IntV(1), IntV(2)>>),
       ListObj(<<>>),
       DataObj(<<KV("a", StrV(<<"a">>)), KV("caller_set_value", NoneV),
                 KV("caller_set_tester", Method("set", "caller_set_value"))>>),
       DataObj(<<KV("a", StrV(<<"a">>)), KV("get_a", Method("get", "a"))>>),
       ThrowsObj("KeyError"),
       ThrowsObj("IndexError"),
       DictObj(<<KV("a", Ref(3))>>),
       DataObj(<<KV("a", NoneV)>>) >>

\* the names of the bearings of the calls: str names, and every int
STR_NAMES == {"a", "z", "caller_set_tester", "get_a"}

INT_NAMES == {ToString(p) : p \in -MaxPos..MaxPos}

\* the bearings of the calls of bearing methods; Attr and Call take str names
ACCESS_BEARINGS ==
    {Bearing(type, name, "none") : type \in {"Item", "Fallback"},
                                  name \in STR_NAMES \cup INT_NAMES}
    \cup {Bearing(type, name, "none") : type \in {"Attr", "Call"}, name \in STR_NAMES}

\* the targets of the calls: the objects, and values that are not objects
ACCESS_TARGETS ==
    {Ref(n) : n \in 1..Len(ACCESS_HEAP)}
    \cup {NoneV, IntV(5), StrV(<<"a", "b">>), Tup(<<IntV(1), IntV(2)>>)}

\* the values placed
ACCESS_VALUES == {IntV(9), NoneV}

\* one call of the fetch or of the place of a bearing
InitBearing ==
    /\ heap = ACCESS_HEAP
    /\ calls_left = 1
    /\ NoMap

NextBearing ==
    \/ calls_left > 0 /\ \E b \in ACCESS_BEARINGS, target \in ACCESS_TARGETS :
            BearingFetchCall(b, target)
    \/ calls_left > 0 /\ \E b \in ACCESS_BEARINGS, target \in ACCESS_TARGETS, value \in ACCESS_VALUES :
            BearingPlaceCall(b, target, value)

SpecBearing == InitBearing /\ [][NextBearing]_vars

\* courses have at most MaxCourseLen bearings
MaxCourseLen == 2

\* the bearings of the courses of the calls, with and without a factory
COURSE_BEARINGS ==
    {Fallback("a"), Item("a"), Attr("a"), Fallback("z"), Item("0"), Item("2"),
     Fallback("caller_set_tester"),
     Bearing("Item", "a", "list"), Bearing("Item", "a", "dict"),
     Bearing("Item", "z", "dict"), Bearing("Attr", "a", "list"),
     Bearing("Attr", "z", "dict"), Bearing("Item", "1", "dict")}

ACCESS_COURSES == {Course(b) : b \in ListsOf(COURSE_BEARINGS, MaxCourseLen)}

\* the roots of the calls of course methods
COURSE_TARGETS == {Ref(1), Ref(4), Ref(5), Ref(9), Ref(10), IntV(5)}

\* one call of the fetch or of the place of a course
InitCourse ==
    /\ heap = ACCESS_HEAP
    /\ calls_left = 1
    /\ NoMap

NextCourse ==
    \/ calls_left > 0 /\ \E course \in ACCESS_COURSES, target \in COURSE_TARGETS,
          default \in {NO_DEFAULT, NoneV, IntV(9)} :
            CourseFetchCall(course, target, default)
    \/ calls_left > 0 /\ \E course \in ACCESS_COURSES, target \in COURSE_TARGETS :
            CoursePlaceCall(course, target, IntV(9))

SpecCourse == InitCourse /\ [][NextCourse]_vars

\* self == other of two bearings
BearingEqCall(self, other) ==
    Returned("Bearing.__eq__", self, NoneV, other, Ok(BoolV(BearingEq(self, other))), heap)

\* item in course
CourseContainsCall(self, item) ==
    Returned("Course.__contains__", self, NoneV, item,
             Ok(BoolV(CourseContains(self, item))), heap)

\* course.starts_with(other)
CourseStartsWithCall(self, other) ==
    Returned("Course.starts_with", self, NoneV, other, CourseStartsWith(self, other), heap)

\* course.ends_with(other)
CourseEndsWithCall(self, other) ==
    Returned("Course.ends_with", self, NoneV, other, CourseEndsWith(self, other), heap)

\* course.replace(index, replacement)
CourseReplaceCall(self, index, replacement) ==
    Returned("Course.replace", self, index, replacement,
             CourseReplace(self, index, replacement), heap)

\* the bearings compared: of every class and of Alpha, with three names
EQ_BEARINGS ==
    {Bearing(type, name, "none") :
        type \in {"Item", "Attr", "Call", "Fallback", "Alpha"}, name \in {"a", "b"}}
    \cup {Item("0"), Fallback("0")}

\* the longest course compared or edited
MaxPathLen == 2

PATH_BEARINGS == {Fallback("a"), Item("a"), Attr("a"), Fallback("b")}

PATH_COURSES == {Course(b) : b \in ListsOf(PATH_BEARINGS, MaxPathLen)}

\* the indexes and slices of Course.replace
PATH_INDEXES ==
    {IntV(n) : n \in -MaxPos..MaxPos}
    \cup {Slice(start, stop) :
            start \in {NoneV} \cup {IntV(n) : n \in -MaxPos..MaxPos},
            stop \in {NoneV} \cup {IntV(n) : n \in -MaxPos..MaxPos}}

PATH_REPLACEMENTS == {Fallback("z"), Course(<<Fallback("z"), Item("0")>>), PORT}

\* one comparison of bearings or of courses, or one edit of a course
InitPath ==
    /\ heap = <<>>
    /\ calls_left = 1
    /\ NoMap

NextPath ==
    \/ calls_left > 0 /\ \E self \in EQ_BEARINGS, other \in EQ_BEARINGS : BearingEqCall(self, other)
    \/ calls_left > 0 /\ \E self \in PATH_COURSES, item \in PATH_COURSES :
            CourseContainsCall(self, item)
    \/ calls_left > 0 /\ \E self \in PATH_COURSES, other \in PATH_COURSES \cup PATH_BEARINGS :
            CourseStartsWithCall(self, other)
    \/ calls_left > 0 /\ \E self \in PATH_COURSES, other \in PATH_COURSES \cup PATH_BEARINGS :
            CourseEndsWithCall(self, other)
    \/ calls_left > 0 /\ \E self \in PATH_COURSES, index \in PATH_INDEXES, replacement \in PATH_REPLACEMENTS :
            CourseReplaceCall(self, index, replacement)

SpecPath == InitPath /\ [][NextPath]_vars

\* surveyor.chart(target, exceptions=exceptions): the chart, or the
\* chart_partial of SuppressedErrors, is kept in course_chart and the errors
\* of SuppressedErrors in error_list
SurveyorCharted(self, target, raising, got) ==
    /\ calls_left > 0
    /\ surveyor' = self
    /\ origin_root' = target
    /\ exceptions' = raising
    /\ course_chart' = got.chart
    /\ error_list' = got.errors
    /\ raised' = got.err
    /\ calls' = calls + 1
    /\ calls_left' = calls_left - 1
    /\ UNCHANGED <<heap, origins, dst_root, coordinates, clean, cache, pc, i, j,
                   mapped_courses, before, log>>

SurveyorChartCall(self, target, raising) ==
    SurveyorCharted(self, target, raising, SurveyorChart(self, heap, target, raising))

\* the objects charted: 1 a dict of every kind of value, 2 an instance with
\* a private attribute and the list 3, 3 a list with the dict 4, 5 an empty
\* dict, 6 an empty list, 7 a dict met twice from 8, 9 an instance with no
\* attribute
CHART_HEAP ==
    << DictObj(<<KV("x", IntV(7)), KV("d", Ref(2)),
                 KV("t", Tup(<<IntV(1), StrV(<<"a", "b">>)>>)),
                 KV("e", Ref(5)), KV("n", NoneV)>>),
       DataObj(<<KV("a", IntV(1)), KV("_h", IntV(2)), KV("l", Ref(3))>>),
       ListObj(<<IntV(1), Ref(4), Ref(6)>>),
       DictObj(<<KV("k", NoneV)>>),
       DictObj(<<>>),
       ListObj(<<>>),
       DictObj(<<KV("b", IntV(2)), KV("o", Ref(9))>>),
       DictObj(<<KV("a", Ref(7)), KV("c", Ref(7)), KV("l", Ref(3))>>),
       DataObj(<<>>) >>

\* what is charted: every object, and values that are not objects
CHART_TARGETS ==
    {Ref(id) : id \in 1..Len(CHART_HEAP)}
    \cup {NoneV, IntV(5), StrV(<<"a", "b">>), Tup(<<IntV(1), Tup(<<IntV(2)>>)>>)}

\* Surveyor() and surveyors whose one compass takes some types only
CHART_SURVEYORS ==
    {SURVEYOR}
    \cup {Surveyor(<<Compass(FALSE, types)>>, DEFAULT_END_POINTS) :
            types \in {{"dict"}, {"dict", "list"}, {"dict", "obj"}, {"list", "tuple", "obj"},
                       {"dict", "list", "tuple"}}}
    \cup {Surveyor(<<Compass(FALSE, {"list"}), Compass(FALSE, {"dict"})>>,
                   DEFAULT_END_POINTS)}

\* one call of Surveyor.chart
InitChart ==
    /\ heap = CHART_HEAP
    /\ calls_left = 1
    /\ NoMap

NextChart ==
    \/ calls_left > 0 /\ \E self \in CHART_SURVEYORS, target \in CHART_TARGETS, raising \in BOOLEAN :
            SurveyorChartCall(self, target, raising)

SpecChart == InitChart /\ [][NextChart]_vars

----------------------------------------------------------------------------
(* Calls of Compass and of Compass.bearings on the classes of Compass *)

\* cls()
CompassNewCall(cls) ==
    Returned("new", cls, NoneV, NoneV, Ok(NoneV), CompassNew(heap, cls))

\* the instances made: DEFAULT_COMPASSES[0] and those of the calls
Instantiated(cls) ==
    \/ cls = 1
    \/ \E n \in 1..Len(log) : log[n].op = "new" /\ log[n].self = cls

\* cls().bearings(target), on an instance made before
CompassBearingsCall(cls, target) ==
    /\ Instantiated(cls)
    /\ Returned("bearings", cls, target, NoneV,
                ClassBearings(heap, cls, Compass(TRUE, {}), target), heap)

\* the classes: 1 Compass, 2 CompassNew(Compass) with no method, 3
\* CompassLess(Compass) whose attr_iter raises NotImplementedError, 4 a
\* subclass of Compass named Compass with one more method, 5 a subclass of
\* CompassNew named CompassNew whose item_iter raises NotImplementedError;
\* and the targets: 6 a dict, 7 an instance
PROBE_HEAP ==
    << ClassObj("Compass", 0,
                <<KV("_BEARING_ITER_METHODS", <<>>), KV("_BEARING_ITER_CLASS", ""),
                  KV("attr_iter", IterMethod("attr_iter")),
                  KV("call_iter", IterMethod("call_iter")),
                  KV("item_iter", IterMethod("item_iter"))>>),
       ClassObj("CompassNew", 1, <<>>),
       ClassObj("CompassLess", 1, <<KV("attr_iter", IterMethod("not_implemented"))>>),
       ClassObj("Compass", 1, <<KV("extra_iter", IterMethod("extra"))>>),
       ClassObj("CompassNew", 2, <<KV("item_iter", IterMethod("not_implemented"))>>),
       DictObj(<<KV("a", IntV(1))>>),
       DataObj(<<KV("a", IntV(1)), KV("_h", IntV(2))>>) >>

PROBE_CLASSES == {cls \in 1..Len(PROBE_HEAP) : PROBE_HEAP[cls].k = "class"}

PROBE_TARGETS == {Ref(id) : id \in (1..Len(PROBE_HEAP)) \ PROBE_CLASSES}

MaxProbeCalls == 3

\* the classes after the import of gemma, which makes DEFAULT_COMPASSES
InitCompass ==
    /\ heap = CompassNew(PROBE_HEAP, 1)
    /\ calls_left = MaxProbeCalls
    /\ NoMap

NextCompass ==
    \/ calls_left > 0 /\ \E cls \in PROBE_CLASSES : CompassNewCall(cls)
    \/ calls_left > 0 /\ \E cls \in PROBE_CLASSES, target \in PROBE_TARGETS :
            CompassBearingsCall(cls, target)

SpecCompass == InitCompass /\ [][NextCompass]_vars

----------------------------------------------------------------------------
(* Two calls of Cartographer.map whose steps interleave.  Every variable of *)
(* a call holds one value for each of the two; clean holds one list of      *)
(* scratch states when the two calls are given the same Coordinate objects. *)

\* where the scratch states of the coordinates of call r are
Slot(r) == IF Len(clean) = 1 THEN 1 ELSE r

\* the coordinate call r is at, and coordinate.clean of it
PairCoordinate(r) == coordinates[r][i[r]]

PairClean(r) == clean[Slot(r)][i[r]]

\* the first lines of map in call r: a fresh CleanData on every coordinate
PairMapCall(r) ==
    /\ pc[r] = "idle"
    /\ clean' = [clean EXCEPT ![Slot(r)] = ResetClean(coordinates[r], @)]
    /\ pc' = [pc EXCEPT ![r] = "fetch"]
    /\ calls' = calls + 1
    /\ calls_left' = calls_left - 1
    /\ UNCHANGED <<args, heap, origin_root, cache, i, mapped_courses, error_list,
                   course_chart, j, raised, before, log>>

\* the except clause of _map_coordinates in call r
PairFailed(r, err, outcome) ==
    /\ error_list' = IF outcome = "suppressed"
                     THEN [error_list EXCEPT
                            ![r] = Append(@, Error(err, "coordinates", i[r]))]
                     ELSE error_list
    /\ raised' = IF outcome = "raised" THEN [raised EXCEPT ![r] = err] ELSE raised
    /\ pc' = [pc EXCEPT ![r] = IF outcome = "raised" THEN "done" ELSE "fetch"]
    /\ i' = IF outcome = "raised" THEN i ELSE [i EXCEPT ![r] = @ + 1]

\* the first statement of _map_coordinate in call r is over
PairFetched(r, fetched) ==
    IF fetched.ok
    THEN /\ clean' = [clean EXCEPT
                        ![Slot(r)][i[r]] = [fetched.clean EXCEPT !.value = fetched.val]]
         /\ pc' = [pc EXCEPT ![r] = "place"]
         /\ UNCHANGED <<i, error_list, raised>>
    ELSE /\ clean' = [clean EXCEPT ![Slot(r)][i[r]] = fetched.clean]
         /\ PairFailed(r, fetched.err, TryOutcome(fetched, ~exceptions))

\* the first statement of _map_coordinate in call r: the fetch, unless
\* coordinate.clean.value is set
PairFetch(r) ==
    /\ pc[r] = "fetch"
    /\ i[r] <= Len(coordinates[r])
    /\ PairFetched(r, IF PairClean(r).value = NoneV
                      THEN FetchOrgValue(heap, cache[r], origin_root[r],
                                         PairCoordinate(r), PairClean(r))
                      ELSE [ok |-> TRUE, val |-> PairClean(r).value,
                            clean |-> PairClean(r)])
    /\ UNCHANGED <<args, heap, origin_root, cache, mapped_courses, course_chart, j,
                   calls_left, calls, before, log>>

\* _map_coordinate in call r is over
PairPlaced(r, done) ==
    /\ heap' = done.heap
    /\ cache' = [cache EXCEPT ![r] = done.cache]
    /\ clean' = [clean EXCEPT ![Slot(r)][i[r]] = done.clean]
    /\ IF done.ok
       THEN /\ mapped_courses' = [mapped_courses EXCEPT
                                    ![r] = Append(@, done.clean.org_list[1])]
            /\ i' = [i EXCEPT ![r] = @ + 1]
            /\ pc' = [pc EXCEPT ![r] = "fetch"]
            /\ UNCHANGED <<error_list, raised>>
       ELSE /\ PairFailed(r, done.err, TryOutcome(done, ~exceptions))
            /\ UNCHANGED mapped_courses

\* _map_coordinate in call r after its first statement: the value cleaner
\* and _place_dst_value on coordinate.clean as it is now
PairPlace(r) ==
    /\ pc[r] = "place"
    /\ PairPlaced(r, MapCleaned(heap, dst_root[r], PairCoordinate(r), PairClean(r),
                                CallValueCleaner(heap, PairClean(r).value,
                                                 PairCoordinate(r), PairClean(r),
                                                 cache[r])))
    /\ UNCHANGED <<args, origin_root, course_chart, j, calls_left, calls, before, log>>

\* the last lines of map in call r
PairRaise(r) ==
    /\ pc[r] = "fetch"
    /\ i[r] > Len(coordinates[r])
    /\ raised' = [raised EXCEPT
                    ![r] = IF error_list[r] # <<>> THEN "SuppressedErrors" ELSE ""]
    /\ pc' = [pc EXCEPT ![r] = "done"]
    /\ UNCHANGED <<args, heap, origin_root, clean, cache, i, mapped_courses, error_list,
                   course_chart, j, calls_left, calls, before, log>>

MaxPairCoords == 2

\* the coordinates of the first call: one places a dict of the origin, one
\* places below it
PAIR_FIRST ==
    {Plain(Path(<<"a">>)),
     Coordinate(Path(<<"x">>), Path(<<"a", "b">>), "None", "None", "None", NO_DEFAULT)}

\* the coordinates of the second call
PAIR_SECOND ==
    {Coordinate(Path(<<"a", "b">>), Path(<<"q">>), "None", "None", "None", NO_DEFAULT),
     Plain(Path(<<"b">>))}

\* two calls of map, each on its own Cartographer and its own destination,
\* on one origin or on two, with their own coordinates or with the same
InitPair ==
    /\ heap = HEAP
    /\ origins = {}
    /\ origin_root \in {<<Ref(3), Ref(3)>>, <<Ref(3), Ref(11)>>}
    /\ dst_root = <<Ref(6), Ref(9)>>
    /\ \/ /\ coordinates \in ListsOf(PAIR_FIRST, MaxPairCoords)
                                \X ListsOf(PAIR_SECOND, MaxPairCoords)
          /\ clean = [r \in 1..2 |-> [n \in 1..Len(coordinates[r]) |-> UNSET]]
       \/ /\ \E coords \in ListsOf(PAIR_FIRST \cup PAIR_SECOND, MaxPairCoords) :
                coordinates = <<coords, coords>>
          /\ clean = <<[n \in 1..Len(coordinates[1]) |-> UNSET]>>
    /\ surveyor = NoneV
    /\ exceptions \in BOOLEAN
    /\ cache = <<DictObj(<<>>), DictObj(<<>>)>>
    /\ pc = <<"idle", "idle">>
    /\ i = <<1, 1>>
    /\ j = 1
    /\ mapped_courses = <<<<>>, <<>>>>
    /\ error_list = <<<<>>, <<>>>>
    /\ course_chart = <<>>
    /\ raised = <<"", "">>
    /\ calls_left = 2
    /\ calls = 0
    /\ before = <<>>
    /\ log = <<>>

NextPair ==
    \/ \E r \in 1..2 : PairMapCall(r)
    \/ \E r \in 1..2 : PairFetch(r)
    \/ \E r \in 1..2 : PairPlace(r)
    \/ \E r \in 1..2 : PairRaise(r)

SpecPair == InitPair /\ [][NextPair]_vars

----------------------------------------------------------------------------
(* Properties of Cartographer.map *)

\* the steps of the current call that processed an explicit coordinate, and
\* those that came to a charted course
CoordinateSteps == {n \in 1..Len(log) : log[n].phase = "coordinates"}

SurveySteps == {n \in 1..Len(log) : log[n].phase = "survey"}

\* the coordinates of the current call that failed with NullNameError
NullNameSteps == {n \in CoordinateSteps : log[n].err = "NullNameError"}

\* the value the m-th destination course of a step is to hold
DstValue(e, m) ==
    IF Len(e.clean.dst_list) <= 1 THEN e.clean.value ELSE e.clean.value.items[m]

\* the destination holds what a step placed
Applied(e) ==
    \A m \in 1..Len(e.clean.dst_list) :
        CourseFetch(heap, e.clean.dst_list[m], dst_root, NO_DEFAULT) = Ok(DstValue(e, m))

\* C1: when a call with exceptions = False has ended and no coordinate raised
\* anything but NullNameError, every coordinate of the list was processed in
\* order, the destination holds what every coordinate that did not fail
\* placed, error_list has exactly one entry for each of the k coordinates that
\* failed with NullNameError (and, without a surveyor, no other entry), and
\* the call raised SuppressedErrors if error_list is not empty and returned
\* otherwise.
SuppressedModeCollects ==
    (/\ pc = "done"
     /\ ~exceptions
     /\ \A n \in 1..Len(log) : log[n].err \in {"", "NullNameError"})
    => /\ Len(log) >= Len(coordinates)
       /\ \A n \in 1..Len(coordinates) : log[n].phase = "coordinates" /\ log[n].n = n
       /\ \A n \in CoordinateSteps : log[n].outcome = "mapped" => Applied(log[n])
       /\ \A n \in NullNameSteps :
            Cardinality({m \in 1..Len(error_list) :
                            error_list[m] = Error("NullNameError", "coordinates", n)}) = 1
       /\ Cardinality({m \in 1..Len(error_list) : error_list[m].phase = "coordinates"})
            = Cardinality(NullNameSteps)
       /\ surveyor = NoneV => Len(error_list) = Cardinality(NullNameSteps)
       /\ raised = IF error_list # <<>> THEN "SuppressedErrors" ELSE ""

\* a call with exceptions = False and no surveyor on three coordinates: one is
\* placed, one fails at the fetch, one fails at the place, and
\* SuppressedErrors with the two errors is raised
SuppressedModeCollectsWitness ==
    /\ pc = "done"
    /\ ~exceptions
    /\ surveyor = NoneV
    /\ Len(coordinates) = 3
    /\ Len(log) = 3
    /\ raised = "SuppressedErrors"
    /\ Len(error_list) = 2
    /\ \E n \in 1..3 : log[n].outcome = "mapped"
    /\ \E n \in 1..3 : log[n].outcome = "suppressed" /\ log[n].at = "fetch"
    /\ \E n \in 1..3 : log[n].outcome = "suppressed" /\ log[n].at = "place"

\* C2: when a call with exceptions = True (the default) has ended and a
\* coordinate failed with NullNameError, the call raised NullNameError, the
\* failing coordinate is the last step of the call (no later coordinate was
\* fetched or placed: its scratch state is as map set it), no chart was made,
\* nothing was appended to error_list, and the destination holds what every
\* earlier coordinate placed.
DefaultModeRaisesFirst ==
    (pc = "done" /\ exceptions /\ NullNameSteps # {})
    => /\ raised = "NullNameError"
       /\ Len(log) = Least(NullNameSteps)
       /\ i = Least(NullNameSteps)
       /\ \A n \in (i + 1)..Len(coordinates) : clean[n] = CleanData(coordinates[n])
       /\ course_chart = <<>>
       /\ SurveySteps = {}
       /\ error_list = <<>>
       /\ \A n \in 1..(i - 1) : log[n].outcome = "mapped" /\ Applied(log[n])

\* a call with exceptions = True and a surveyor on three coordinates: the
\* first is placed, the second fails, NullNameError is raised
DefaultModeRaisesFirstWitness ==
    /\ pc = "done"
    /\ exceptions
    /\ surveyor # NoneV
    /\ Len(coordinates) = 3
    /\ Len(log) = 2
    /\ log[1].outcome = "mapped"
    /\ log[2].err = "NullNameError"
    /\ raised = "NullNameError"

\* C3: at the start of every call of map (the coordinates have their fresh
\* scratch state, no step is taken yet) the cache of the Cartographer is empty.
CacheEmptyAtStart ==
    (pc = "coordinates" /\ i = 1 /\ log = <<>>) => cache = DictObj(<<>>)

\* C4: every step of _map_coordinates, in whichever call of map on the same
\* coordinate objects, leaves the heap (and so the destination), the outcome
\* and the value handed to the value cleaner that _map_coordinate leaves on a
\* coordinate with the same fields whose scratch state is fresh.
ReuseAsFresh ==
    [][(pc = "coordinates" /\ i <= Len(coordinates) /\ Len(log') = Len(log) + 1)
       => /\ heap' = MapCoordinate(heap, cache, origin_root, dst_root, coordinates[i],
                                   CleanData(coordinates[i])).heap
          /\ log'[Len(log')].err =
                MapCoordinate(heap, cache, origin_root, dst_root, coordinates[i],
                              CleanData(coordinates[i])).err
          /\ log'[Len(log')].fetched =
                MapCoordinate(heap, cache, origin_root, dst_root, coordinates[i],
                              CleanData(coordinates[i])).fetched]_vars

\* the second call has mapped its first coordinate, whose scratch state the
\* first call had left with a value and cleaned courses
ReuseAsFreshWitness ==
    /\ calls = 2
    /\ Len(log) >= 1
    /\ log[1].outcome = "mapped"
    /\ before[1] # UNSET
    /\ before[1].value # NoneV
    /\ before[1] # CleanData(coordinates[1])

\* two courses of which one equals, contains or is contained in the other
Related(p, q) == CourseEq(p, q) \/ CourseContains(p, q) \/ CourseContains(q, p)

\* a charted course is related to the origin course of a coordinate that was
\* mapped without an error
RelatedToExplicit(course) ==
    \E m \in CoordinateSteps :
        log[m].outcome = "mapped" /\ Related(course, log[m].course)

\* a charted course is related to a charted course that an earlier step of
\* the call handed to _map_coordinate without an exception leaving map
RelatedToEarlier(n) ==
    \E m \in SurveySteps :
        /\ m < n
        /\ log[m].outcome \in {"mapped", "suppressed"}
        /\ Related(log[n].course, log[m].course)

DeepestFirst ==
    \A m, n \in SurveySteps :
        (m < n /\ log[m].outcome # "skipped" /\ log[n].outcome # "skipped")
            => Len(log[m].course.b) >= Len(log[n].course.b)

\* a course recast with Fallback bearings
Mirror(course) == Course([n \in 1..Len(course.b) |-> Fallback(course.b[n].name)])

\* the value a step fetched for its m-th origin course
OrgValue(e, m) == IF Len(e.clean.org_list) <= 1 THEN e.fetched ELSE e.fetched.items[m]

\* the step map took last
LastStep == log[Len(log)]

\* C7: after a coordinate without a destination and without cleaning
\* functions is mapped, the destination holds, for every origin course, the
\* value fetched for it at that course recast with Fallback bearings.
MirrorsEveryOrigin ==
    (/\ log # <<>>
     /\ LastStep.phase = "coordinates"
     /\ LastStep.outcome = "mapped"
     /\ coordinates[LastStep.n].dst = NoneV
     /\ coordinates[LastStep.n].clean_value = "None"
     /\ coordinates[LastStep.n].clean_dst = "None")
    => \A m \in 1..Len(LastStep.clean.org_list) :
            CourseFetch(heap, Mirror(LastStep.clean.org_list[m]), dst_root, NO_DEFAULT)
                = Ok(OrgValue(LastStep, m))

\* C8: in every step of _map_coordinates that comes to the value cleaner,
\* the cleaner is handed, for n >= 2 origin courses, the tuple of the n
\* values Course.fetch gives for each origin course with its default, and
\* for one origin course that value itself; and when the step maps the
\* coordinate to one destination course, the destination then holds there
\* what the cleaner returned.
ManyToOne ==
    [][(/\ pc = "coordinates"
        /\ i <= Len(coordinates)
        /\ Len(log') = Len(log) + 1
        /\ log'[Len(log')].at # "fetch")
       => LET e == log'[Len(log')]
              each == [m \in 1..Len(e.clean.org_list) |->
                          CourseFetch(heap, e.clean.org_list[m], origin_root,
                                      e.clean.default_list[m]).val]
          IN  /\ Len(each) >= 2 => e.fetched = Tup(each)
              /\ Len(each) = 1 => e.fetched = each[1]
              /\ (e.outcome = "mapped" /\ Len(e.clean.dst_list) = 1)
                    => CourseFetch(heap', e.clean.dst_list[1], dst_root, NO_DEFAULT)
                        = Ok(CallValueCleaner(heap, e.fetched, coordinates[i],
                                              CleanData(coordinates[i]), cache).val)]_vars

\* (width, height) was married into one destination: the cleaner was handed
\* the tuple of the two fetched numbers and its str is in the destination
ManyToOneWitness ==
    /\ log # <<>>
    /\ LastStep.phase = "coordinates"
    /\ LastStep.outcome = "mapped"
    /\ coordinates[LastStep.n].clean_value = "marry_dimensions"
    /\ LastStep.fetched = Tup(<<IntV(19), IntV(10)>>)
    /\ CourseFetch(heap, Path(<<"dimensions">>), dst_root, NO_DEFAULT)
        = Ok(StrV(<<"1", "9", "x", "1", "0">>))

\* the destination courses of a step are pairwise different
DistinctDsts(e) ==
    \A m, n \in 1..Len(e.clean.dst_list) :
        m # n => ~CourseEq(e.clean.dst_list[m], e.clean.dst_list[n])

\* C9: after a step of _map_coordinates has mapped a coordinate with k >= 2
\* pairwise different destination courses whose cleaned value is a tuple of
\* k elements, the destination holds the m-th element at the m-th
\* destination course for every m; after it has mapped a coordinate with one
\* destination course, the destination holds the whole cleaned value there.
OneToMany ==
    [][(/\ pc = "coordinates"
        /\ i <= Len(coordinates)
        /\ Len(log') = Len(log) + 1
        /\ log'[Len(log')].outcome = "mapped")
       => LET e == log'[Len(log')]
              k == Len(e.clean.dst_list)
          IN  /\ (/\ k >= 2
                  /\ e.clean.value.k = "tuple"
                  /\ Len(e.clean.value.items) = k
                  /\ DistinctDsts(e))
                    => \A m \in 1..k :
                        CourseFetch(heap', e.clean.dst_list[m], dst_root, NO_DEFAULT)
                            = Ok(e.clean.value.items[m])
              /\ k = 1
                    => CourseFetch(heap', e.clean.dst_list[1], dst_root, NO_DEFAULT)
                        = Ok(e.clean.value)]_vars

\* a resolution was split to x and y by one coordinate, and placed whole, as
\* a tuple, at size by another
OneToManyWitness ==
    /\ Len(log) >= 2
    /\ log[1].outcome = "mapped"
    /\ Len(log[1].clean.dst_list) = 2
    /\ log[2].outcome = "mapped"
    /\ Len(log[2].clean.dst_list) = 1
    /\ CourseFetch(heap, Path(<<"x">>), dst_root, NO_DEFAULT) = Ok(IntV(12))
    /\ CourseFetch(heap, Path(<<"y">>), dst_root, NO_DEFAULT) = Ok(IntV(7))
    /\ CourseFetch(heap, Path(<<"size">>), dst_root, NO_DEFAULT)
        = Ok(Tup(<<IntV(12), IntV(7)>>))

\* C10: in every step of _map_coordinates on a coordinate with as many
\* defaults as origin courses, none of which the origin fails to support
\* with another error than NullNameError: if some origin course is not found
\* and its own default is NO_DEFAULT the step fails at the fetch with
\* NullNameError; otherwise the value used for every origin course is the
\* one found there, or its own default when it is not found.
PerOriginDefaults ==
    [][(/\ pc = "coordinates"
        /\ i <= Len(coordinates)
        /\ Len(log') = Len(log) + 1
        /\ Len(log'[Len(log')].clean.org_list) = Len(log'[Len(log')].clean.default_list)
        /\ \A m \in 1..Len(log'[Len(log')].clean.org_list) :
            LET raw == FetchWalk(heap, log'[Len(log')].clean.org_list[m], 1, origin_root)
            IN  raw.ok \/ raw.err = "NullNameError")
       => LET e == log'[Len(log')]
              raw == [m \in 1..Len(e.clean.org_list) |->
                         FetchWalk(heap, e.clean.org_list[m], 1, origin_root)]
          IN  IF \E m \in 1..Len(raw) : ~raw[m].ok /\ e.clean.default_list[m] = NO_DEFAULT
              THEN e.outcome # "mapped" /\ e.err = "NullNameError" /\ e.at = "fetch"
              ELSE /\ e.at # "fetch"
                   /\ \A m \in 1..Len(raw) :
                        OrgValue(e, m) = IF raw[m].ok THEN raw[m].val
                                         ELSE e.clean.default_list[m]]_vars

\* one coordinate used the found width and the default of its missing
\* second origin; another failed for a missing first origin without a
\* default although its second origin has one
PerOriginDefaultsWitness ==
    /\ ~exceptions
    /\ \E n \in CoordinateSteps :
        /\ log[n].outcome = "mapped"
        /\ coordinates[n].default = Tup(<<IntV(1), IntV(2)>>)
        /\ log[n].fetched \in {Tup(<<IntV(19), IntV(2)>>), Tup(<<IntV(8), IntV(2)>>)}
    /\ \E n \in CoordinateSteps :
        /\ log[n].outcome = "suppressed"
        /\ log[n].at = "fetch"
        /\ coordinates[n].default = Tup(<<NO_DEFAULT, IntV(3)>>)

\* the objects after values[m] is placed from the destination root at
\* dsts[m] for every m from n on for which dsts[m] is a course
RECURSIVE PlacedExplicit(_, _, _, _)
PlacedExplicit(h, dsts, values, n) ==
    IF n > Len(dsts) THEN h
    ELSE IF dsts[n] = NoneV THEN PlacedExplicit(h, dsts, values, n + 1)
    ELSE PlacedExplicit(CoursePlace(h, dsts[n], dst_root, values[n]).heap,
                        dsts, values, n + 1)

\* C11: a step of _map_coordinates that maps a coordinate whose dst is a
\* tuple, cleaned by the cartographer's own clean_dst, changes the objects
\* as placing each element of the cleaned value at its destination course
\* does, for the entries of dst that are courses only: nothing is placed
\* for an entry that is None.
SkipsNoOp ==
    [][(/\ pc = "coordinates"
        /\ i <= Len(coordinates)
        /\ Len(log') = Len(log) + 1
        /\ log'[Len(log')].outcome = "mapped"
        /\ coordinates[i].dst.k = "tuple"
        /\ coordinates[i].clean_dst = "None")
       => heap' = PlacedExplicit(heap, coordinates[i].dst.items,
                                 log'[Len(log')].clean.value.items, 1)]_vars

----------------------------------------------------------------------------
(* Properties of bearings and courses *)

\* the calls of op made so far
CallsOf(op) == {log[n] : n \in {m \in 1..Len(log) : log[m].op = op}}

\* the result of applying the first n bearings of course in order, each to
\* what the one before gave, from target on: the value come to, or the
\* exception of the first bearing that failed
RECURSIVE Running(_, _, _, _)
Running(h, course, target, n) ==
    IF n = 0 THEN Ok(target)
    ELSE LET r == Running(h, course, target, n - 1)
         IN  IF r.ok THEN BearingFetch(h, course.b[n], r.val) ELSE r

\* C12: every call of Course.fetch returns what its bearings give when they
\* are applied in order to the running value (the target itself for the
\* empty course); when a bearing fails with NullNameError it returns the
\* default if one was passed, None included, and raises NullNameError if
\* none was; when a bearing fails with TypeError it raises TypeError, with
\* or without a default; and it changes no object.
FetchAppliesInOrder ==
    \A e \in CallsOf("Course.fetch") :
        LET r == Running(e.before, e.self, e.target, Len(e.self.b))
        IN  /\ r.ok => e.ok /\ e.val = r.val
            /\ (~r.ok /\ r.err = "NullNameError" /\ e.arg # NO_DEFAULT)
                    => e.ok /\ e.val = e.arg
            /\ (~r.ok /\ r.err = "NullNameError" /\ e.arg = NO_DEFAULT)
                    => ~e.ok /\ e.err = "NullNameError"
            /\ (~r.ok /\ r.err # "NullNameError") => ~e.ok /\ e.err = r.err
            /\ heap = e.before

\* a fetch of a/z on a dict whose a is a dict without z returned the default
\* None
FetchAppliesInOrderWitness ==
    \E e \in CallsOf("Course.fetch") :
        /\ e.self = Course(<<Fallback("a"), Fallback("z")>>)
        /\ e.target = Ref(1)
        /\ Running(e.before, e.self, e.target, 1) = Ok(Ref(2))
        /\ Running(e.before, e.self, e.target, 2) = Err("NullNameError")
        /\ e.arg = NoneV
        /\ e.ok
        /\ e.val = NoneV

\* the walk of Course.place over the first n bearings of course as the
\* contract has it: a bearing without a factory is fetched and its value
\* gone into, and the exception of its fetch ends the walk; for a bearing
\* with a factory a new instance is made and handed to the bearing's place,
\* and gone into, exactly when the fetch failed with NullNameError or gave
\* what is no instance of the factory type; the exception of that place or
\* of the fetch ends the walk
RECURSIVE Resolved(_, _, _, _)
Resolved(h, course, target, n) ==
    IF n = 0 THEN [ok |-> TRUE, err |-> "", heap |-> h, target |-> target, made |-> {}]
    ELSE LET w == Resolved(h, course, target, n - 1)
             b == course.b[n]
             got == BearingFetch(w.heap, b, w.target)
             fresh == Ref(Len(w.heap) + 1)
             placed == BearingPlace(Append(w.heap, InitFactory(b.factory)),
                                    b, w.target, fresh)
         IN  IF ~w.ok THEN w
             ELSE IF b.factory # "none"
                     /\ \/ ~got.ok /\ got.err = "NullNameError"
                        \/ got.ok /\ ~IsObject(w.heap, got.val, b.factory)
             THEN IF placed.ok
                  THEN [w EXCEPT !.heap = placed.heap, !.target = fresh,
                                 !.made = @ \cup {n}]
                  ELSE [w EXCEPT !.ok = FALSE, !.err = placed.err]
             ELSE IF got.ok THEN [w EXCEPT !.target = got.val]
             ELSE [w EXCEPT !.ok = FALSE, !.err = got.err]

\* a call of Course.place did what the walk and one place of the value by
\* the last bearing do
PlacedAsResolved(e) ==
    LET w == Resolved(e.before, e.self, e.target, Len(e.self.b) - 1)
        last == BearingPlace(w.heap, e.self.b[Len(e.self.b)], w.target, e.arg)
    IN  IF w.ok
        THEN /\ e.ok = last.ok
             /\ ~last.ok => e.err = last.err
             /\ heap = last.heap
        ELSE /\ ~e.ok
             /\ e.err = w.err
             /\ heap = w.heap

\* C13 as amended: every call of Course.place on a course that is not empty
\* walks the bearings before the last as described at Resolved, where the
\* exception of a fetch or of the place of a new factory instance leaves
\* the call, and then calls the place of the last bearing once with the
\* value on the object come to, whatever the factory of the last bearing.
PlaceWalksFactories ==
    \A e \in CallsOf("Course.place") : Len(e.self.b) >= 1 => PlacedAsResolved(e)

\* C13 as claimed: moreover, whenever the walk comes to a bearing with a
\* factory whose fetch fails with NullNameError or gives what is no
\* instance of the factory type, a new instance is placed there and gone
\* into.
PlaceAlwaysBuilds ==
    \A e \in CallsOf("Course.place") :
        Len(e.self.b) >= 1 =>
            /\ PlacedAsResolved(e)
            /\ \A n \in 1..(Len(e.self.b) - 1) :
                LET w == Resolved(e.before, e.self, e.target, n - 1)
                    got == BearingFetch(w.heap, e.self.b[n], w.target)
                IN  (/\ w.ok
                     /\ e.self.b[n].factory # "none"
                     /\ \/ ~got.ok /\ got.err = "NullNameError"
                        \/ got.ok /\ ~IsObject(w.heap, got.val, e.self.b[n].factory))
                    => /\ Resolved(e.before, e.self, e.target, n).ok
                       /\ n \in Resolved(e.before, e.self, e.target, n).made

\* a place of Item("a", factory=list) / 2 on a dict whose a is a dict put a
\* new list at a and filled it up to the value
PlaceWalksFactoriesWitness ==
    \E e \in CallsOf("Course.place") :
        /\ e.self = Course(<<Bearing("Item", "a", "list"), Item("2")>>)
        /\ e.target = Ref(1)
        /\ e.ok
        /\ Len(heap) = Len(e.before) + 1
        /\ heap[1].items[1].val = Ref(Len(heap))
        /\ heap[Len(heap)] = ListObj(<<NoneV, NoneV, e.arg>>)

\* the variant that carried out a successful Fallback.place: the first of
\* BEARING_CLASSES that takes the name and whose place succeeds
CarriedBy(e) ==
    BEARING_CLASSES[
        Least({n \in 1..Len(BEARING_CLASSES) :
                /\ IsCompatible(BEARING_CLASSES[n], e.self.name)
                /\ ConcretePlace(e.before, BEARING_CLASSES[n], e.target,
                                 e.self.name, e.arg).ok})]

\* C14 as claimed: after a place of a bearing of any of the four classes has
\* succeeded, the fetch of the same bearing on the same target returns the
\* value placed.
RoundTrip ==
    \A e \in CallsOf("Bearing.place") :
        e.ok => BearingFetch(heap, e.self, e.target) = Ok(e.arg)

\* C14 as amended: that holds for an Item and for an Attr bearing, and for a
\* Fallback bearing whose place was carried out by Item or by Attr when the
\* value is not callable.
RoundTripItemAttr ==
    \A e \in CallsOf("Bearing.place") :
        (/\ e.ok
         /\ \/ e.self.type \in {"Item", "Attr"}
            \/ /\ e.self.type = "Fallback"
               /\ CarriedBy(e) \in {"Item", "Attr"}
               /\ ~IsCallable(heap, e.arg))
        => BearingFetch(heap, e.self, e.target) = Ok(e.arg)

\* Fallback("a") placed 9 on an instance by setting its attribute a
RoundTripItemAttrWitness ==
    \E e \in CallsOf("Bearing.place") :
        /\ e.self = Fallback("a")
        /\ e.target = Ref(5)
        /\ e.arg = IntV(9)
        /\ e.ok
        /\ CarriedBy(e) = "Attr"
        /\ e.before[5].items[1].val = StrV(<<"a">>)
        /\ heap[5].items[1].val = IntV(9)

\* the calls of Item.place with a position that is not negative on a list
ListPlaces ==
    {e \in CallsOf("Bearing.place") :
        /\ e.self.type = "Item"
        /\ IsInt(e.self.name)
        /\ IntOf(e.self.name) >= 0
        /\ IsObject(e.before, e.target, "list")}

\* C15: Item(p).place(list, v) for p >= 0 and a list of length n succeeds
\* and changes the list only; for p >= n the list is then p + 1 long, with
\* its n elements as before, None at the positions n to p - 1 and v at
\* position p; for p < n it has the same length and v at position p, the
\* other elements as before.
ListAutoExtends ==
    \A e \in ListPlaces :
        LET old == e.before[e.target.id].items
            new == heap[e.target.id].items
            pos == IntOf(e.self.name)
        IN  /\ e.ok
            /\ \A id \in 1..Len(heap) : id # e.target.id => heap[id] = e.before[id]
            /\ Len(heap) = Len(e.before)
            /\ Len(new) = IF pos >= Len(old) THEN pos + 1 ELSE Len(old)
            /\ \A m \in 1..Len(old) : m # pos + 1 => new[m] = old[m]
            /\ \A m \in (Len(old) + 1)..pos : new[m] = NoneV
            /\ new[pos + 1] = e.arg

\* Item(3) placed 9 on the empty list after three None, and on the list of
\* two elements after one None (in another call)
ListAutoExtendsWitness ==
    \E e \in ListPlaces :
        /\ e.self = Item("3")
        /\ e.arg = IntV(9)
        /\ e.before[e.target.id].items = <<>>
        /\ heap[e.target.id].items = <<NoneV, NoneV, NoneV, IntV(9)>>

\* C16: no call of Item.fetch or of Item.place ends with KeyError or
\* IndexError: a missing key and a position out of range, negative ones
\* included, give NullNameError, or for Item.place a list filled up.
NativeNeverEscapes ==
    \A e \in CallsOf("Bearing.fetch") \cup CallsOf("Bearing.place") :
        e.self.type = "Item" => e.err \notin {"KeyError", "IndexError"}

\* what the fetch of each class of BEARING_CLASSES gives, in their order, for
\* the target and the name of a call; a class that does not take the name
\* gives TypeError
FetchVariants(e) ==
    [n \in 1..Len(BEARING_CLASSES) |->
        IF IsCompatible(BEARING_CLASSES[n], e.self.name)
        THEN ConcreteFetch(e.before, BEARING_CLASSES[n], e.target, e.self.name)
        ELSE Err("TypeError")]

\* the same for place
PlaceVariants(e) ==
    [n \in 1..Len(BEARING_CLASSES) |->
        IF IsCompatible(BEARING_CLASSES[n], e.self.name)
        THEN ConcretePlace(e.before, BEARING_CLASSES[n], e.target, e.self.name, e.arg)
        ELSE Fail("TypeError", e.before)]

Succeeding(res) == {n \in 1..Len(res) : res[n].ok}

\* C17: a call of the fetch or of the place of a Fallback bearing gives what
\* the first class of Item, Call, Attr (in that order) gives that takes the
\* name and succeeds: its value for fetch, its effect on the objects for
\* place, nothing of the classes before it or after it; when no class
\* succeeds it raises NullNameError and changes nothing.
FallbackDispatch ==
    /\ BEARING_CLASSES = <<"Item", "Call", "Attr">>
    /\ \A e \in CallsOf("Bearing.fetch") :
        e.self.type = "Fallback" =>
            /\ heap = e.before
            /\ IF Succeeding(FetchVariants(e)) = {}
               THEN ~e.ok /\ e.err = "NullNameError"
               ELSE e.ok /\ e.val = FetchVariants(e)[Least(Succeeding(FetchVariants(e)))].val
    /\ \A e \in CallsOf("Bearing.place") :
        e.self.type = "Fallback" =>
            IF Succeeding(PlaceVariants(e)) = {}
            THEN ~e.ok /\ e.err = "NullNameError" /\ heap = e.before
            ELSE e.ok /\ heap = PlaceVariants(e)[Least(Succeeding(PlaceVariants(e)))].heap

\* C18: self == other of two bearings is True exactly when the names are
\* equal and the classes are the same or one is a Fallback and the other an
\* Item, a Call or an Attr; so other == self gives the same, a Fallback
\* equals the same-named Item, Attr and Call both ways, an Item, an Attr and
\* a Call of one name are unequal to each other, and a Fallback is unequal
\* to a same-named Alpha, which is not in BEARING_CLASSES.
EqualityOfBearings ==
    \A e \in CallsOf("Bearing.__eq__") :
        /\ e.ok
        /\ e.val.b <=>
            /\ e.self.name = e.arg.name
            /\ \/ e.self.type = e.arg.type
               \/ e.self.type = "Fallback" /\ e.arg.type \in {"Item", "Call", "Attr"}
               \/ e.arg.type = "Fallback" /\ e.self.type \in {"Item", "Call", "Attr"}
        /\ e.val.b <=> BearingEq(e.arg, e.self)

\* Item("a") == Fallback("a") returned True
EqualityOfBearingsWitness ==
    \E e \in CallsOf("Bearing.__eq__") :
        e.self = Item("a") /\ e.arg = Fallback("a") /\ e.val = BoolV(TRUE)

\* the window of p of the length of q at offset x equals q, bearing by bearing
WindowEquals(p, q, x) ==
    /\ x >= 0
    /\ x + Len(q.b) <= Len(p.b)
    /\ \A n \in 1..Len(q.b) : BearingEq(p.b[x + n], q.b[n])

\* C19: for courses p and q, q in p is True iff a window of p equals q,
\* p.starts_with(q) iff the window at offset 0 does and p.ends_with(q) iff
\* the window at offset len(p) - len(q) does (q empty or longer than p
\* included).
WindowedComparison ==
    /\ \A e \in CallsOf("Course.__contains__") :
        e.ok /\ (e.val.b <=> \E x \in 0..Len(e.self.b) : WindowEquals(e.self, e.arg, x))
    /\ \A e \in CallsOf("Course.starts_with") :
        ~IsBearing(e.arg) => e.ok /\ (e.val.b <=> WindowEquals(e.self, e.arg, 0))
    /\ \A e \in CallsOf("Course.ends_with") :
        ~IsBearing(e.arg) =>
            e.ok /\ (e.val.b <=> WindowEquals(e.self, e.arg, Len(e.self.b) - Len(e.arg.b)))

\* the bounds of the part of p that index stands for: one valid position, or
\* the slice as slicing takes it
ReplacedFrom(p, index) ==
    IF index.k = "int" THEN index.n % Len(p.b)
    ELSE SliceBound(index.start, Len(p.b), 0)

ReplacedTo(p, index) ==
    IF index.k = "int" THEN (index.n % Len(p.b)) + 1
    ELSE IF SliceBound(index.stop, Len(p.b), Len(p.b)) < ReplacedFrom(p, index)
    THEN ReplacedFrom(p, index)
    ELSE SliceBound(index.stop, Len(p.b), Len(p.b))

\* C20: p.replace(index, r), for a valid int index or any slice, returns
\* the course of the bearings of p before the replaced part, then those of
\* r, then those of p after the replaced part.
ReplaceSplices ==
    \A e \in CallsOf("Course.replace") :
        (e.target.k = "int" => e.target.n \in (0 - Len(e.self.b))..(Len(e.self.b) - 1)) =>
            /\ e.ok
            /\ e.val = Course(SubSeq(e.self.b, 1, ReplacedFrom(e.self, e.target))
                              \o (IF IsBearing(e.arg) THEN <<e.arg>> ELSE e.arg.b)
                              \o SubSeq(e.self.b, ReplacedTo(e.self, e.target) + 1,
                                        Len(e.self.b)))

----------------------------------------------------------------------------
(* Properties of Surveyor.chart *)

\* a call of Surveyor.chart has been made
Charting == calls = 1 /\ pc = "idle" /\ surveyor # NoneV

\* None, or a value of one of the end point types
Terminal(value) == value.k \in {"none", "str", "int"}

\* the bearings a default compass can yield for the objects of CHART_HEAP:
\* Attr of a public name, Item of a key or of an index
STEPS ==
    {Attr(name) : name \in {"a", "l"}}
    \cup {Item(name) : name \in {"x", "d", "t", "e", "n", "k", "b", "o", "a", "c", "l"}}
    \cup {Item(ToString(n)) : n \in 0..MaxPos}

\* the bearings of STEPS the value has
StepsOf(value) == {b \in STEPS : BearingFetch(heap, b, value).ok}

\* the positions of the chart whose course is the given one
EntriesAt(course) == {n \in 1..Len(course_chart) : course_chart[n][1] = course}

\* course b is course a with more bearings after it
Extends(a, b) == Len(b.b) > Len(a.b) /\ SubSeq(b.b, 1, Len(a.b)) = a.b

\* the chart has one entry for every bearing of STEPS that value, charted at
\* course, has, with the value it has there
ChartedBelow(course, value) ==
    \A b \in StepsOf(value) :
        \E n \in EntriesAt(Course(Append(course.b, b))) :
            course_chart[n][2] = BearingFetch(heap, b, value).val

\* C21: a chart made with the default surveyor has no two entries with the
\* same course; its courses are made of public attributes, keys and indexes;
\* every entry but those of one bearing has its parent course
\* in the chart, with a value that is not terminal; no entry lies below an
\* entry whose value is None or of an end point type; and below the root
\* and below every entry whose value is not terminal there is one entry
\* for each of its public attributes, keys or indexes.
ChartCovers ==
    (Charting /\ surveyor = SURVEYOR) =>
        /\ raised = ""
        /\ \A n \in 1..Len(course_chart) :
            /\ EntriesAt(course_chart[n][1]) = {n}
            /\ Len(course_chart[n][1].b) >= 1
            /\ \A m \in 1..Len(course_chart[n][1].b) : course_chart[n][1].b[m] \in STEPS
            /\ Len(course_chart[n][1].b) > 1 =>
                    \E m \in 1..Len(course_chart) :
                        /\ course_chart[m][1].b = SubSeq(course_chart[n][1].b, 1,
                                                         Len(course_chart[n][1].b) - 1)
                        /\ ~Terminal(course_chart[m][2])
            /\ IF Terminal(course_chart[n][2])
               THEN \A m \in 1..Len(course_chart) :
                        ~Extends(course_chart[n][1], course_chart[m][1])
               ELSE ChartedBelow(course_chart[n][1], course_chart[n][2])
        /\ ChartedBelow(PORT, origin_root)

\* the chart of the dict 8, which reaches the dict 7 twice and the list 3
ChartCoversWitness ==
    /\ Charting
    /\ surveyor = SURVEYOR
    /\ origin_root = Ref(8)
    /\ Len(course_chart) = 11
    /\ \E n \in 1..Len(course_chart) :
        /\ course_chart[n][1] = Course(<<Item("l"), Item("1"), Item("k")>>)
        /\ course_chart[n][2] = NoneV

\* some compass of the surveyor takes the value
Takes(self, value) ==
    \E n \in 1..Len(self.compasses) :
        self.compasses[n].any_type \/ TypeOf(heap, value) \in self.compasses[n].target_types

\* the values that are not terminal at the bearings of a value
Below(value) ==
    {v \in {BearingFetch(heap, b, value).val : b \in StepsOf(value)} : ~Terminal(v)}

\* objects are nested at most this deep
MaxDepth == 5

RECURSIVE Nodes(_, _, _)
\* the values a traversal from value visits, down to a depth: the value, and
\* when the surveyor takes it the values below it that are not terminal
Nodes(self, value, depth) ==
    IF depth = 0 \/ ~Takes(self, value) THEN {value}
    ELSE {value} \cup UNION {Nodes(self, v, depth - 1) : v \in Below(value)}

\* the charted values the surveyor has no compass for, in the order of the
\* chart, after the root if it has none for the root
Unnavigable ==
    (IF Takes(surveyor, origin_root) THEN <<>> ELSE <<origin_root>>)
    \o [n \in 1..Len(SelectSeq(course_chart,
                                LAMBDA e : ~Terminal(e[2]) /\ ~Takes(surveyor, e[2]))) |->
            SelectSeq(course_chart,
                      LAMBDA e : ~Terminal(e[2]) /\ ~Takes(surveyor, e[2]))[n][2]]

\* C22: when a traversal meets no value that no compass takes, chart
\* returns; otherwise with exceptions it raises NonNavigableError, and
\* without it raises SuppressedErrors after the whole traversal: errors has
\* one NonNavigableError for each such value in the order of the traversal,
\* and chart_partial has, below the root and below every entry the
\* surveyor takes, the entries of all its bearings, and the entry of each
\* value it does not take with nothing below it.
UnnavigablePolicy ==
    Charting =>
        IF \A v \in Nodes(surveyor, origin_root, MaxDepth) : Takes(surveyor, v)
        THEN raised = "" /\ error_list = <<>>
        ELSE IF exceptions
        THEN raised = "NonNavigableError"
        ELSE /\ raised = "SuppressedErrors"
             /\ error_list = [n \in 1..Len(Unnavigable) |->
                                [error |-> "NonNavigableError", target |-> Unnavigable[n]]]
             /\ IF Takes(surveyor, origin_root)
                THEN ChartedBelow(PORT, origin_root)
                ELSE course_chart = <<>>
             /\ \A n \in 1..Len(course_chart) :
                    IF Terminal(course_chart[n][2]) \/ ~Takes(surveyor, course_chart[n][2])
                    THEN \A m \in 1..Len(course_chart) :
                            ~Extends(course_chart[n][1], course_chart[m][1])
                    ELSE ChartedBelow(course_chart[n][1], course_chart[n][2])

\* a surveyor for dicts only charted the dict 1 without exceptions: the
\* instance and the tuple are in errors, and the entries after them charted
UnnavigablePolicyWitness ==
    /\ Charting
    /\ ~exceptions
    /\ origin_root = Ref(1)
    /\ raised = "SuppressedErrors"
    /\ Len(error_list) = 2
    /\ error_list[1].target = Ref(2)
    /\ error_list[2].target = Tup(<<IntV(1), StrV(<<"a", "b">>)>>)
    /\ Len(course_chart) = 5
    /\ course_chart[5] = <<Course(<<Item("n")>>), NoneV>>

\* C28: in a chart made with the default surveyor the fetch of the course of
\* every entry on the root gives the value of the entry; the entry of the
\* parent course of every entry of more than one bearing comes before it;
\* and the entries below an entry follow it without another entry between
\* them (depth first, parents first).
ChartSound ==
    (Charting /\ surveyor = SURVEYOR) =>
        \A n \in 1..Len(course_chart) :
            /\ CourseFetch(heap, course_chart[n][1], origin_root, NO_DEFAULT)
                    = Ok(course_chart[n][2])
            /\ Len(course_chart[n][1].b) > 1 =>
                    \E m \in 1..(n - 1) :
                        course_chart[m][1].b = SubSeq(course_chart[n][1].b, 1,
                                                     Len(course_chart[n][1].b) - 1)
            /\ \A m \in 1..(n - 1) :
                    Extends(course_chart[m][1], course_chart[n][1]) =>
                        \A between \in (m + 1)..n :
                            Extends(course_chart[m][1], course_chart[between][1])

\* the chart of the dict 1 has the None of the dict in the list of the
\* instance as its seventh entry, after the entries of its parents
ChartSoundWitness ==
    /\ Charting
    /\ surveyor = SURVEYOR
    /\ origin_root = Ref(1)
    /\ Len(course_chart) = 13
    /\ course_chart[4] = <<Course(<<Item("d"), Attr("l")>>), Ref(3)>>
    /\ course_chart[7] = <<Course(<<Item("d"), Attr("l"), Item("1"), Item("k")>>), NoneV>>
    /\ course_chart[11] = <<Course(<<Item("t"), Item("1")>>), StrV(<<"a", "b">>)>>

----------------------------------------------------------------------------
(* Properties of the errors of Cartographer.map *)

\* the errors of error_list that a phase of map has put there
ErrorsOf(phase) == SelectSeq(error_list, LAMBDA e : e.phase = phase)

\* the steps of a phase that ended with a suppressed error, in their order
SuppressedOf(phase) ==
    SelectSeq(log, LAMBDA e : e.phase = phase /\ e.outcome = "suppressed")

\* C23: in a call of map with exceptions = False, SuppressedErrors is raised
\* only when the call is over, after a step for every coordinate and for
\* every charted course; error_list holds first the errors of the
\* coordinates in the order of the coordinates, then the
\* NonNavigableErrors of the chart in its order, then the errors of the
\* charted courses in the order they were processed.
ErrorsInOrder ==
    ~exceptions =>
        /\ raised = "SuppressedErrors" =>
            /\ pc = "done"
            /\ error_list # <<>>
            /\ \A n \in 1..Len(coordinates) :
                    \E e \in 1..Len(log) : log[e].phase = "coordinates" /\ log[e].n = n
            /\ surveyor # NoneV =>
                    \A n \in 1..Len(course_chart) :
                        \E e \in 1..Len(log) : log[e].phase = "survey" /\ log[e].n = n
        /\ error_list = ErrorsOf("coordinates") \o ErrorsOf("chart") \o ErrorsOf("survey")
        /\ ErrorsOf("coordinates") =
                [n \in 1..Len(SuppressedOf("coordinates")) |->
                    Error(SuppressedOf("coordinates")[n].err, "coordinates",
                          SuppressedOf("coordinates")[n].n)]
        /\ ErrorsOf("survey") =
                [n \in 1..Len(SuppressedOf("survey")) |->
                    Error(SuppressedOf("survey")[n].err, "survey", SuppressedOf("survey")[n].n)]
        /\ \A n \in 1..Len(ErrorsOf("chart")) :
                ErrorsOf("chart")[n] = Error("NonNavigableError", "chart", n)
        /\ \A m, n \in 1..Len(log) :
                (m < n /\ log[m].phase = log[n].phase) => log[m].n < log[n].n

\* a call ended with SuppressedErrors for a coordinate, for a value that
\* could not be charted and for a charted course, in that order
ErrorsInOrderWitness ==
    /\ ~exceptions
    /\ pc = "done"
    /\ raised = "SuppressedErrors"
    /\ Len(error_list) >= 3
    /\ error_list[1].phase = "coordinates"
    /\ \E n \in 2..(Len(error_list) - 1) : error_list[n].phase = "chart"
    /\ error_list[Len(error_list)].phase = "survey"

\* C24: in a call of map with exceptions = False, a step that ends with
\* TypeError is the last step of the call: the TypeError is raised by map,
\* not SuppressedErrors, whatever error_list holds, and no later coordinate
\* and no charted course is processed.
TypeErrorLeaves ==
    ~exceptions =>
        \A n \in 1..Len(log) :
            log[n].err = "TypeError" =>
                /\ log[n].outcome = "raised"
                /\ n = Len(log)
                /\ pc = "done"
                /\ raised = "TypeError"
                /\ log[n].phase = "coordinates" => i = log[n].n /\ course_chart = <<>>
                /\ error_list = ErrorsOf("coordinates") \o ErrorsOf("chart")
                                    \o ErrorsOf("survey")

\* the first of two coordinates raised TypeError from the place of its Item
\* bearing on a dataclass instance, and the second was not processed
TypeErrorLeavesWitness ==
    /\ ~exceptions
    /\ raised = "TypeError"
    /\ Len(coordinates) = 2
    /\ i = 1
    /\ coordinates[1].dst = Course(<<Item("b")>>)
    /\ dst_root = Ref(7)
    /\ Len(log) = 1
    /\ log[1].err = "TypeError"
    /\ log[1].at = "place"

----------------------------------------------------------------------------
(* Properties of coordinates with several origins and of defaults *)

\* the origin courses of the explicit coordinates the current call mapped
MappedOrigins ==
    UNION {{log[n].clean.org_list[m] : m \in 1..Len(log[n].clean.org_list)} :
           n \in {c \in CoordinateSteps : log[c].outcome = "mapped"}}

\* C25: no charted course that equals, contains or is within an origin
\* course of a mapped explicit coordinate, the second and later origin
\* courses of the coordinate included, is mapped by _map_survey_chart.
OriginsCountAsMapped ==
    \A s \in SurveySteps :
        log[s].outcome # "skipped" =>
            \A org \in MappedOrigins :
                /\ ~CourseContains(org, log[s].course)
                /\ ~CourseContains(log[s].course, org)

\* C26: a coordinate with one origin course, not a tuple of courses, whose
\* origin does not have the course fetches its default as it is, a tuple
\* default included.
DefaultAsIs ==
    \A n \in CoordinateSteps :
        LET coord == coordinates[log[n].n]
        IN  /\ coord.org.k # "tuple"
            /\ coord.default # NO_DEFAULT
            /\ ~CourseFetch(HEAP, coord.org, origin_root, NO_DEFAULT).ok
            => /\ log[n].err = ""
               /\ log[n].fetched = coord.default

----------------------------------------------------------------------------
(* Properties of the methods Compass.__new__ stashes *)

\* what bearings returns with the methods found on the class of the instance
\* at the time of the call
FreshBearings(h, cls, target) ==
    YieldFrom(DiscoveredMethods(h, cls), 1, Compass(TRUE, {}), h, target)

\* C27: whatever instances were made before and in whatever order,
\* bearings(target) of an instance returns what the *_iter methods found on
\* the class of that instance yield.
StashIsOptimisation ==
    \A e \in CallsOf("bearings") :
        e.ok /\ e.val = FreshBearings(e.before, e.self, e.target)

----------------------------------------------------------------------------
(* Properties of what Cartographer.map leaves alone *)

\* the objects a value refers to
RefsOf(value) ==
    IF value.k = "ref" THEN {value.id}
    ELSE IF value.k = "tuple"
    THEN {value.items[n].id : n \in {m \in 1..Len(value.items) : value.items[m].k = "ref"}}
    ELSE {}

\* the objects the entries of an object refer to
Children(h, id) ==
    IF h[id].k = "list" THEN UNION {RefsOf(h[id].items[n]) : n \in 1..Len(h[id].items)}
    ELSE UNION {RefsOf(h[id].items[n].val) : n \in 1..Len(h[id].items)}

RECURSIVE Reach(_, _, _)
\* the objects within n references of the objects ids
Reach(h, ids, n) ==
    IF n = 0 THEN ids
    ELSE Reach(h, ids \cup UNION {Children(h, id) : id \in ids}, n - 1)

\* the objects reachable from root
Reachable(h, root) == Reach(h, RefsOf(root), Len(h))

\* C29: during and after a call of map whose origin root and destination
\* root share no object before the call, every object reachable from the
\* origin root holds what it held before the call.
OriginUntouched ==
    /\ origin_root # NoneV
    /\ Reachable(HEAP, origin_root) \cap Reachable(HEAP, dst_root) = {}
    => \A id \in Reachable(HEAP, origin_root) : heap[id] = HEAP[id]

----------------------------------------------------------------------------
(* Properties of two calls of Cartographer.map that interleave *)

RECURSIVE Contents(_, _, _)
\* a value with every object it refers to, down to n references, in place
\* of the reference
Contents(h, value, n) ==
    IF value.k # "ref" \/ n = 0 THEN value
    ELSE IF h[value.id].k = "list"
    THEN [k |-> "list",
          items |-> [m \in 1..Len(h[value.id].items) |->
                        Contents(h, h[value.id].items[m], n - 1)]]
    ELSE [k |-> h[value.id].k,
          items |-> [m \in 1..Len(h[value.id].items) |->
                        KV(h[value.id].items[m].key,
                           Contents(h, h[value.id].items[m].val, n - 1))]]

RECURSIVE Alone(_, _, _, _, _, _, _)
\* what a call of map that no other call interleaves with leaves, from its
\* n-th coordinate on: the objects and the exception raised
Alone(h, own_cache, org, dst, coords, n, errors) ==
    IF n > Len(coords)
    THEN [heap |-> h, raised |-> IF errors THEN "SuppressedErrors" ELSE ""]
    ELSE LET done == MapCoordinate(h, own_cache, org, dst, coords[n],
                                   CleanData(coords[n]))
         IN  IF TryOutcome(done, ~exceptions) = "raised"
             THEN [heap |-> done.heap, raised |-> done.err]
             ELSE Alone(done.heap, done.cache, org, dst, coords, n + 1,
                        errors \/ ~done.ok)

\* call r has ended as it ends alone
EndsAsAlone(r) ==
    LET alone == Alone(HEAP, DictObj(<<>>), origin_root[r], dst_root[r],
                       coordinates[r], 1, FALSE)
    IN  /\ raised[r] = alone.raised
        /\ Contents(heap, dst_root[r], MaxDepth)
            = Contents(alone.heap, dst_root[r], MaxDepth)

\* C30: two calls of map, each with its own Cartographer, its own
\* Coordinate objects and its own destination root, whose steps interleave
\* in any way, both end with the destination and the raised exception they
\* end with alone.
NoInterference ==
    Len(clean) = 2 /\ pc = <<"done", "done">> => EndsAsAlone(1) /\ EndsAsAlone(2)

====
